---- MODULE Spec2Model ----
(***************************************************************************)
(* A model of the Stepmania chart parser of src/src/stepmania.rs.          *)
(*                                                                         *)
(* Text is a sequence of one-character strings.  Integers parsed from text *)
(* are kept as sign and decimal magnitude (a sequence of digits without    *)
(* leading zeros), so that the 64-bit range of the parsed values is kept.  *)
(* Option<T> is a record: [some |-> TRUE, v |-> x] or [some |-> FALSE].    *)
(***************************************************************************)
EXTENDS Integers, Sequences, FiniteSets, TLC

VARIABLES
    input,          \* the text handed to parse_from_string
    pc,             \* position of the running call
    current_pos,    \* parse_to_property_map: index of the next character
    state,          \* parse_to_property_map: ParserState
    line,           \* StepmaniaParser.line
    col,            \* StepmaniaParser.col
    start_pos,      \* StepmaniaParser.start_pos
    latest_name,    \* StepmaniaParser.latest_name
    errors,         \* StepmaniaParser.errors
    latest_errors,  \* StepmaniaParser.latest_errors
    map,            \* parse_to_property_map: the name-keyed map
    todo,           \* parse_from_string: keys of the map not yet iterated
    step,           \* parse_from_string: the StepmaniaFile under construction
    inserted,       \* history: the map.insert calls (key and value), in order
    arg,            \* the arguments of a directly called decoder
    ret,            \* the value a directly called decoder returned
    frame           \* the locals of a decoder that is run character by character

vars == <<input, pc, current_pos, state, line, col, start_pos, latest_name,
          errors, latest_errors, map, todo, step, inserted, arg, ret, frame>>

(***************************************************************************)
(* Text                                                                    *)
(***************************************************************************)

CHAR_LINE_BREAK == "\n"
CHAR_PROPERTY_START == "#"
CHAR_VALUE_START == ":"
CHAR_VALUE_END == ";"
CHAR_OBJ_VAL_SEPARATOR == "="
CHAR_OBJ_SEPARATOR == ","
CHAR_COLOR_SEPARATOR == "^"
CHAR_ATTACK_VALUE_SEPARATOR == ":"
CHAR_ATTACK_KEY_SEPARATOR == "="
CHAR_NOTE_PROP_SEPARATOR == ":"
CHAR_INLINE_ATTACK_START == "{"
CHAR_INLINE_ATTACK_END == "}"
CHAR_INLINE_KEYSOUND_START == "["
CHAR_INLINE_KEYSOUND_END == "]"
CHAR_BEAT_SEPARATOR == ","

PRECISION_TIME == 3

\* char::is_whitespace on the characters of the model's alphabet
is_whitespace(c) == c \in {" ", "\n", "\t", "\r"}

Upper == <<"A","B","C","D","E","F","G","H","I","J","K","L","M",
           "N","O","P","Q","R","S","T","U","V","W","X","Y","Z">>
Lower == <<"a","b","c","d","e","f","g","h","i","j","k","l","m",
           "n","o","p","q","r","s","t","u","v","w","x","y","z">>

\* char::to_lowercase
to_lowercase_char(c) ==
    IF \E i \in 1..26 : Upper[i] = c
    THEN Lower[CHOOSE i \in 1..26 : Upper[i] = c]
    ELSE c

\* a text kept in the case it has
to_lowercase_unchanged(s) == s

\* String::to_lowercase
to_lowercase(s) == [i \in 1..Len(s) |-> to_lowercase_char(s[i])]

\* s.chars().skip(n).take(k).collect()
SkipTake(s, n, k) ==
    IF n >= Len(s) \/ k <= 0 THEN <<>>
    ELSE SubSeq(s, n + 1, IF n + k > Len(s) THEN Len(s) ELSE n + k)

\* str::trim
trim(s) ==
    IF \A i \in 1..Len(s) : is_whitespace(s[i]) THEN <<>>
    ELSE LET a == CHOOSE i \in 1..Len(s) :
                      /\ ~is_whitespace(s[i])
                      /\ \A j \in 1..(i - 1) : is_whitespace(s[j])
             b == CHOOSE i \in 1..Len(s) :
                      /\ ~is_whitespace(s[i])
                      /\ \A j \in (i + 1)..Len(s) : is_whitespace(s[j])
         IN SubSeq(s, a, b)

\* str::find of a one-character pattern: the 0-based index of its first occurrence
find(s, c) ==
    IF \E i \in 1..Len(s) : s[i] = c
    THEN [some |-> TRUE,
          v |-> (CHOOSE i \in 1..Len(s) :
                     s[i] = c /\ \A j \in 1..(i - 1) : s[j] # c) - 1]
    ELSE [some |-> FALSE]

\* the text as one string value (a String field of the output record)
RECURSIVE Str(_)
Str(s) == IF s = <<>> THEN "" ELSE Head(s) \o Str(Tail(s))

\* str::chars of a string value
Chars(str) == [i \in 1..Len(str) |-> SubSeq(str, i, i)]

None == [some |-> FALSE]
Some(x) == [some |-> TRUE, v |-> x]

(***************************************************************************)
(* Integers of the Rust integer types, as sign and decimal magnitude       *)
(***************************************************************************)

Digits == <<"0","1","2","3","4","5","6","7","8","9">>
IsDigit(c) == \E i \in 1..10 : Digits[i] = c
DigitVal(c) == (CHOOSE i \in 1..10 : Digits[i] = c) - 1

RECURSIVE StripZeros(_)
StripZeros(m) ==
    IF m # <<>> /\ Head(m) = 0 THEN StripZeros(Tail(m)) ELSE m

\* magnitudes without leading zeros: a < b
RECURSIVE MagLess(_, _)
MagLess(a, b) ==
    IF Len(a) # Len(b) THEN Len(a) < Len(b)
    ELSE IF a = <<>> THEN FALSE
    ELSE IF Head(a) # Head(b) THEN Head(a) < Head(b)
    ELSE MagLess(Tail(a), Tail(b))

MagLeq(a, b) == a = b \/ MagLess(a, b)

\* the magnitude padded with leading zeros to n digits
RECURSIVE PadTo(_, _)
PadTo(m, n) == IF Len(m) >= n THEN m ELSE PadTo(<<0>> \o m, n)

\* digit-wise a + b + carry of two magnitudes of the same length
RECURSIVE AddDigits(_, _, _)
AddDigits(a, b, carry) ==
    IF a = <<>> THEN (IF carry = 0 THEN <<>> ELSE <<carry>>)
    ELSE LET n == Len(a)
             s == a[n] + b[n] + carry
         IN AddDigits(SubSeq(a, 1, n - 1), SubSeq(b, 1, n - 1), s \div 10)
                \o <<s % 10>>

\* digit-wise a - b - borrow of two magnitudes of the same length, a >= b
RECURSIVE SubDigits(_, _, _)
SubDigits(a, b, borrow) ==
    IF a = <<>> THEN <<>>
    ELSE LET n == Len(a)
             d == a[n] - b[n] - borrow
         IN SubDigits(SubSeq(a, 1, n - 1), SubSeq(b, 1, n - 1),
                      IF d < 0 THEN 1 ELSE 0)
                \o <<IF d < 0 THEN d + 10 ELSE d>>

MagAdd(a, b) ==
    LET n == IF Len(a) > Len(b) THEN Len(a) ELSE Len(b)
    IN StripZeros(AddDigits(PadTo(a, n), PadTo(b, n), 0))

\* a - b for a >= b
MagSub(a, b) ==
    LET n == Len(a) IN StripZeros(SubDigits(a, PadTo(b, n), 0))

IntVal(neg, mag) == [neg |-> neg /\ mag # <<>>, mag |-> mag]

RECURSIVE NatMag(_)
NatMag(n) == IF n = 0 THEN <<>> ELSE NatMag(n \div 10) \o <<n % 10>>

\* the integer n of the model as a value of the program
I64(n) == IF n < 0 THEN IntVal(TRUE, NatMag(0 - n)) ELSE IntVal(FALSE, NatMag(n))

IntNeg(x) == IntVal(~x.neg, x.mag)

IntAdd(x, y) ==
    IF x.neg = y.neg THEN IntVal(x.neg, MagAdd(x.mag, y.mag))
    ELSE IF MagLess(x.mag, y.mag) THEN IntVal(y.neg, MagSub(y.mag, x.mag))
    ELSE IntVal(x.neg, MagSub(x.mag, y.mag))

IntSub(x, y) == IntAdd(x, IntNeg(y))

IntLeq(x, y) ==
    IF x.neg /\ ~y.neg THEN TRUE
    ELSE IF ~x.neg /\ y.neg THEN FALSE
    ELSE IF x.neg THEN MagLeq(y.mag, x.mag)
    ELSE MagLeq(x.mag, y.mag)

I64_MAX == IntVal(FALSE, <<9,2,2,3,3,7,2,0,3,6,8,5,4,7,7,5,8,0,7>>)
I64_MIN == IntVal(TRUE, <<9,2,2,3,3,7,2,0,3,6,8,5,4,7,7,5,8,0,8>>)
I32_MAX == IntVal(FALSE, <<2,1,4,7,4,8,3,6,4,7>>)
I32_MIN == IntVal(TRUE, <<2,1,4,7,4,8,3,6,4,8>>)
U8_MAX == IntVal(FALSE, <<2,5,5>>)
U16_MAX == IntVal(FALSE, <<6,5,5,3,5>>)
U32_MAX == IntVal(FALSE, <<4,2,9,4,9,6,7,2,9,5>>)
TWO_POW_64 == IntVal(FALSE, <<1,8,4,4,6,7,4,4,0,7,3,7,0,9,5,5,1,6,1,6>>)

InRange(x, lo, hi) == IntLeq(lo, x) /\ IntLeq(x, hi)

\* str::parse for the integer types (core::num::from_str_radix, radix 10): an
\* optional sign ("-" only for a signed type), then at least one digit and
\* nothing but digits; a value outside the type is an error
ParseInt(s, signed, lo, hi) ==
    LET hasSign == s # <<>> /\ (s[1] = "+" \/ (signed /\ s[1] = "-"))
        body == IF hasSign THEN Tail(s) ELSE s
        Checked(bad, x) == IF bad \/ ~InRange(x, lo, hi) THEN None ELSE Some(x)
    IN Checked(body = <<>> \/ \E i \in 1..Len(body) : ~IsDigit(body[i]),
               IntVal(hasSign /\ s[1] = "-",
                      StripZeros([i \in 1..Len(body) |->
                                     IF IsDigit(body[i]) THEN DigitVal(body[i]) ELSE 0])))

parse_i64(s) == ParseInt(s, TRUE, I64_MIN, I64_MAX)
parse_i32(s) == ParseInt(s, TRUE, I32_MIN, I32_MAX)
parse_u8(s) == ParseInt(s, FALSE, I64(0), U8_MAX)
parse_u16(s) == ParseInt(s, FALSE, I64(0), U16_MAX)
parse_u32(s) == ParseInt(s, FALSE, I64(0), U32_MAX)

(***************************************************************************)
(* Diagnostics and raw value spans                                         *)
(***************************************************************************)

ParseError(code, l, c, n) == [code |-> code, line |-> l, column |-> c, len |-> n]

UnparsedPropertyValue(raw, l, c, n) ==
    [raw |-> raw, line |-> l, column |-> c, len |-> n]

\* the diagnostics of one kind in a diagnostics list
OfCode(errs, code) == {i \in 1..Len(errs) : errs[i].code = code}

(***************************************************************************)
(* Value decoding library                                                  *)
(***************************************************************************)

RECURSIVE Zeros(_)
Zeros(n) == IF n = 0 THEN <<>> ELSE <<"0">> \o Zeros(n - 1)

\* String::remove(idx), idx 0-based
RemoveAt(s, idx) == SubSeq(s, 1, idx) \o SubSeq(s, idx + 2, Len(s))

\* the digit string with the "." removed but the fraction left at its full length
NumberDigits_untruncated(str_val, idx, precision) ==
    IF idx.some
    THEN RemoveAt(IF precision > 0 THEN str_val \o Zeros(precision) ELSE str_val,
                  idx.v)
    ELSE IF precision > 0 THEN str_val \o Zeros(precision)
    ELSE str_val

\* the digit string when the zeros are pushed to a text that is not empty only
NumberDigits_unpadded_empty(str_val, idx, precision) ==
    IF idx.some
    THEN SkipTake(RemoveAt(IF precision > 0 THEN str_val \o Zeros(precision)
                           ELSE str_val, idx.v),
                  0, idx.v + precision)
    ELSE IF precision > 0 /\ str_val # <<>> THEN str_val \o Zeros(precision)
    ELSE str_val

\* the digit string parse_to_number hands to str::parse: the trimmed text with
\* `precision` zeros pushed, the "." at idx removed and idx + precision characters taken
NumberDigits(str_val, idx, precision) ==
    IF idx.some
    THEN SkipTake(RemoveAt(IF precision > 0 THEN str_val \o Zeros(precision)
                           ELSE str_val, idx.v),
                  0, idx.v + precision)
    ELSE IF precision > 0 THEN str_val \o Zeros(precision)
    ELSE str_val

\* parse_to_number with the diagnostic placed on the trimmed text
parse_to_number_trimmed_span(value, precision) ==
    LET Match(parsed) ==
            IF parsed.some
            THEN [ret |-> parsed, errors |-> <<>>]
            ELSE [ret |-> None,
                  errors |-> <<ParseError("StepmaniaInvalidNumber", value.line,
                                          value.column, Len(trim(value.raw)))>>]
    IN Match(parse_i64(trim(NumberDigits(trim(value.raw),
                                         find(trim(value.raw), "."), precision))))

\* parse_to_number: [ret: Option<i64>, errors: the diagnostics it appends]
parse_to_number(value, precision) ==
    LET Match(parsed) ==
            IF parsed.some
            THEN [ret |-> parsed, errors |-> <<>>]
            ELSE [ret |-> None,
                  errors |-> <<ParseError("StepmaniaInvalidNumber",
                                          value.line, value.column, value.len)>>]
    IN Match(parse_i64(trim(NumberDigits(trim(value.raw),
                                         find(trim(value.raw), "."), precision))))

(***************************************************************************)
(* Position tracker and error coalescer                                    *)
(***************************************************************************)

\* a tracker that counts a line break as a column of the line it ends
update_read_without_reset(l, k, c) ==
    IF c = CHAR_LINE_BREAK THEN [line |-> l + 1, col |-> k + 1]
    ELSE [line |-> l, col |-> k + 1]

\* update_read: the (line, col) after reading c at (l, k)
update_read(l, k, c) ==
    IF c = CHAR_LINE_BREAK THEN [line |-> l + 1, col |-> 0]
    ELSE [line |-> l, col |-> k + 1]

\* create_error: the offset is kept in len until the diagnostic is closed
create_error(code, pos) == ParseError(code, line, col, pos)

\* an open that replaces the start recorded for a kind that is already open
create_and_push_error_overwriting(le, code, pos) ==
    [k \in DOMAIN le \cup {code} |->
        IF k = code THEN create_error(code, pos) ELSE le[k]]

\* create_and_push_error: latest_errors after the call
create_and_push_error(le, code, pos) ==
    IF code \in DOMAIN le THEN le
    ELSE [k \in DOMAIN le \cup {code} |->
             IF k = code THEN create_error(code, pos) ELSE le[k]]

\* cleanup_error: [latest_errors, errors, panicked] after the call.  `pos - err.len`
\* is a usize subtraction: below 0 it panics in a build with overflow checks and
\* wraps otherwise; the wrapped length is kept as the negative integer it is
\* congruent to modulo 2^64
cleanup_error(le, errs, code, pos, overflow_checks) ==
    IF code \in DOMAIN le
    THEN [latest_errors |-> [k \in DOMAIN le \ {code} |-> le[k]],
          errors |-> IF pos < le[code].len /\ overflow_checks THEN errs
                     ELSE Append(errs, [le[code] EXCEPT !.len = pos - le[code].len]),
          panicked |-> pos < le[code].len /\ overflow_checks]
    ELSE [latest_errors |-> le, errors |-> errs, panicked |-> FALSE]

\* a range split on the last `-` of the text
parse_to_number_range_last_dash(value, precision) ==
    LET dashes == {i \in 1..Len(value.raw) : value.raw[i] = "-"}
        Part(raw) == UnparsedPropertyValue(raw, value.line, value.column, Len(raw))
        Range(min_val, max_val) ==
            [ret |-> IF min_val.ret.some /\ max_val.ret.some
                     THEN Some([min |-> min_val.ret.v, max |-> max_val.ret.v])
                     ELSE None,
             errors |-> min_val.errors \o max_val.errors]
        Last(idx) ==
            Range(parse_to_number(Part(SubSeq(value.raw, 1, idx - 1)), precision),
                  parse_to_number(Part(SubSeq(value.raw, idx + 1, Len(value.raw))),
                                  precision))
        Single(one) ==
            [ret |-> IF one.ret.some
                     THEN Some([min |-> one.ret.v, max |-> one.ret.v])
                     ELSE None,
             errors |-> one.errors]
    IN IF dashes = {}
       THEN Single(parse_to_number(value, precision))
       ELSE Last(CHOOSE i \in dashes : \A j \in dashes : j <= i)

\* parse_to_number_range: [ret: Option<StepmaniaNumberRange>, errors]
parse_to_number_range(value, precision) ==
    LET split_idx == find(value.raw, "-")
        Part(raw) == UnparsedPropertyValue(raw, value.line, value.column, Len(raw))
        Range(min_val, max_val) ==
            [ret |-> IF min_val.ret.some /\ max_val.ret.some
                     THEN Some([min |-> min_val.ret.v, max |-> max_val.ret.v])
                     ELSE None,
             errors |-> min_val.errors \o max_val.errors]
        Single(one) ==
            [ret |-> IF one.ret.some
                     THEN Some([min |-> one.ret.v, max |-> one.ret.v])
                     ELSE None,
             errors |-> one.errors]
    IN IF split_idx.some
       THEN Range(parse_to_number(Part(SkipTake(value.raw, 0, split_idx.v)), precision),
                  parse_to_number(Part(SkipTake(value.raw, split_idx.v + 1,
                                                Len(value.raw))),
                                  precision))
       ELSE Single(parse_to_number(value, precision))

\* parse_to_value_entries: the locals after the loop body has read c at current_pos
EntriesStep(acc, raw, c, pos, groups) ==
    LET Field(len) == UnparsedPropertyValue(SkipTake(raw, acc.start_pos, len),
                                            acc.line, acc.column, len)
    IN IF c = CHAR_OBJ_VAL_SEPARATOR /\ groups
       THEN [acc EXCEPT !.latest_obj = Append(@, Field(pos - acc.start_pos)),
                        !.column = @ + 1,
                        !.has_latest = TRUE,
                        !.start_pos = pos + 1]
       ELSE IF c = CHAR_OBJ_SEPARATOR
       THEN [acc EXCEPT !.list = Append(@, IF pos - acc.start_pos > 0
                                           THEN Append(acc.latest_obj,
                                                       Field(pos - acc.start_pos))
                                           ELSE acc.latest_obj),
                        !.latest_obj = <<>>,
                        !.has_latest = FALSE,
                        !.column = @ + 1,
                        !.start_pos = pos + 1]
       ELSE IF c = CHAR_LINE_BREAK
       THEN [acc EXCEPT !.line = @ + 1, !.column = 0]
       ELSE [acc EXCEPT !.column = @ + 1]

RECURSIVE EntriesLoop(_, _, _, _)
EntriesLoop(acc, raw, pos, groups) ==
    IF pos >= Len(raw) THEN acc
    ELSE EntriesLoop(EntriesStep(acc, raw, raw[pos + 1], pos, groups),
                     raw, pos + 1, groups)

\* the groups closed by a `,` only: the group in progress at the end is lost
parse_to_value_entries_unflushed(value, groups) ==
    EntriesLoop([list |-> <<>>, latest_obj |-> <<>>,
                 has_latest |-> FALSE, line |-> value.line,
                 column |-> value.column, start_pos |-> 0],
                value.raw, 0, groups).list

\* parse_to_value_entries: "a=b,1=2" to <<<<a, b>>, <<1, 2>>>>
parse_to_value_entries(value, groups) ==
    LET Finish(acc, len) ==
            IF acc.has_latest
            THEN Append(acc.list,
                        IF len > 0
                        THEN Append(acc.latest_obj,
                                    UnparsedPropertyValue(
                                        SkipTake(value.raw, acc.start_pos, len),
                                        acc.line, acc.column, len))
                        ELSE acc.latest_obj)
            ELSE acc.list
        After(acc) == Finish(acc, Len(value.raw) - acc.start_pos)
    IN After(EntriesLoop([list |-> <<>>, latest_obj |-> <<>>,
                          has_latest |-> FALSE, line |-> value.line,
                          column |-> value.column, start_pos |-> 0],
                         value.raw, 0, groups))

\* parse_to_bool: [ret: bool, errors]
parse_to_bool(val) ==
    IF val.raw = <<"0">> THEN [ret |-> FALSE, errors |-> <<>>]
    ELSE IF val.raw = <<"1">> THEN [ret |-> TRUE, errors |-> <<>>]
    ELSE [ret |-> FALSE,
          errors |-> <<ParseError("StepmaniaInvalidBoolean",
                                  val.line, val.column, val.len)>>]

(***************************************************************************)
(* f32 values: a decimal text that str::parse::<f32> accepts is kept as    *)
(* sign, decimal digits and power of ten (mag * 10^exp10), without the     *)
(* rounding to 24 bits; it is exact for the short decimals of the model.   *)
(***************************************************************************)

IsDigits(s) == \A i \in 1..Len(s) : IsDigit(s[i])

RECURSIVE DigitsToNat(_)
DigitsToNat(s) ==
    IF s = <<>> THEN 0
    ELSE 10 * DigitsToNat(SubSeq(s, 1, Len(s) - 1)) + DigitVal(s[Len(s)])

\* str::parse::<f32>, the decimal number: digits with at least one digit around an
\* optional ".", and digits after an optional sign in the exponent
F32Decimal(neg, ipart, fpart, hasExp, expo) ==
    LET eSign == expo # <<>> /\ expo[1] \in {"+", "-"}
        eDigits == IF eSign THEN Tail(expo) ELSE expo
        Number(mag, e) ==
            Some([kind |-> "num", neg |-> neg, mag |-> mag, exp10 |-> e - Len(fpart)])
    IN IF /\ IsDigits(ipart \o fpart) /\ ipart \o fpart # <<>>
          /\ hasExp => (eDigits # <<>> /\ IsDigits(eDigits))
       THEN Number(StripZeros([i \in 1..Len(ipart \o fpart) |->
                                  DigitVal((ipart \o fpart)[i])]),
                   (IF eSign /\ expo[1] = "-" THEN 0 - 1 ELSE 1)
                   * (IF Len(eDigits) > 4 THEN 9999 ELSE DigitsToNat(eDigits)))
       ELSE None

\* str::parse::<f32>, the mantissa split at its first "."
F32Mantissa(neg, mant, dot, hasExp, expo) ==
    F32Decimal(neg,
               IF dot.some THEN SubSeq(mant, 1, dot.v) ELSE mant,
               IF dot.some THEN SubSeq(mant, dot.v + 2, Len(mant)) ELSE <<>>,
               hasExp, expo)

\* str::parse::<f32>, the text after the sign: "inf", "infinity" or "nan" in any
\* case, or a decimal number split at its first "e" or "E"
F32Body(neg, body, epos) ==
    LET mant == IF epos.some THEN SubSeq(body, 1, epos.v) ELSE body
    IN IF Str(to_lowercase(body)) \in {"inf", "infinity"}
       THEN Some([kind |-> "inf", neg |-> neg, mag |-> <<>>, exp10 |-> 0])
       ELSE IF Str(to_lowercase(body)) = "nan"
       THEN Some([kind |-> "nan", neg |-> neg, mag |-> <<>>, exp10 |-> 0])
       ELSE F32Mantissa(neg, mant, find(mant, "."), epos.some,
                        IF epos.some THEN SubSeq(body, epos.v + 2, Len(body))
                        ELSE <<>>)

\* str::parse::<f32> (core::num::dec2flt): an optional sign, then the body
parse_f32(s) ==
    LET hasSign == s # <<>> /\ s[1] \in {"+", "-"}
        body == IF hasSign THEN Tail(s) ELSE s
    IN F32Body(hasSign /\ s[1] = "-", body, find(to_lowercase(body), "e"))

RECURSIVE ZeroDigits(_)
ZeroDigits(n) == IF n <= 0 THEN <<>> ELSE <<0>> \o ZeroDigits(n - 1)

\* `float as i64`: truncated toward zero, saturated at the bounds, NaN is 0
F32AsI64(f) ==
    IF f.kind = "nan" THEN I64(0)
    ELSE IF f.kind = "inf" THEN (IF f.neg THEN I64_MIN ELSE I64_MAX)
    ELSE LET digits == IF f.exp10 >= 0
                       THEN (IF f.mag = <<>> THEN <<>>
                             ELSE IF Len(f.mag) + f.exp10 > 19
                             THEN TWO_POW_64.mag
                             ELSE f.mag \o ZeroDigits(f.exp10))
                       ELSE SubSeq(f.mag, 1, Len(f.mag) + f.exp10)
             x == IntVal(f.neg, digits)
         IN IF ~IntLeq(x, I64_MAX) THEN I64_MAX
            ELSE IF ~IntLeq(I64_MIN, x) THEN I64_MIN
            ELSE x

\* a channel rounded to the nearest integer instead of truncated
F32ToChannel_rounded(f) ==
    IF f.kind = "nan" THEN 0
    ELSE IF f.kind = "inf" THEN (IF f.neg THEN 0 ELSE 255)
    ELSE IF f.neg \/ f.mag = <<>> THEN 0
    ELSE IF Len(f.mag) + f.exp10 >= 1 THEN 255
    ELSE LET frac == ZeroDigits(0 - f.exp10 - Len(f.mag)) \o f.mag
             f6 == SubSeq(frac \o ZeroDigits(6), 1, 6)
             n == 100000 * f6[1] + 10000 * f6[2] + 1000 * f6[3]
                  + 100 * f6[4] + 10 * f6[5] + f6[6]
         IN (255 * n + 500000) \div 1000000

\* `(255.0 * float.clamp(0.0, 1.0)) as u8`
F32ToChannel(f) ==
    IF f.kind = "nan" THEN 0
    ELSE IF f.kind = "inf" THEN (IF f.neg THEN 0 ELSE 255)
    ELSE IF f.neg \/ f.mag = <<>> THEN 0
    ELSE IF Len(f.mag) + f.exp10 >= 1 THEN 255
    ELSE LET frac == ZeroDigits(0 - f.exp10 - Len(f.mag)) \o f.mag
             f6 == SubSeq(frac \o ZeroDigits(6), 1, 6)
             n == 100000 * f6[1] + 10000 * f6[2] + 1000 * f6[3]
                  + 100 * f6[4] + 10 * f6[5] + f6[6]
         IN (255 * n) \div 1000000

\* parse_to_color_channel: [ret: Option<u8>, errors]
parse_to_color_channel(value) ==
    LET Match(float) ==
            IF float.some
            THEN [ret |-> Some(F32ToChannel(float.v)), errors |-> <<>>]
            ELSE [ret |-> None,
                  errors |-> <<ParseError("StepmaniaInvalidColorValue",
                                          value.line, value.column, value.len)>>]
    IN Match(parse_f32(trim(value.raw)))

\* StepmaniaColor::default
DefaultColor == [red |-> 0, green |-> 0, blue |-> 0, alpha |-> 255]

\* `match color_pos { 0 => color.red = cv, ... }`
SetChannel(color, color_pos, channel) ==
    IF ~channel.some THEN color
    ELSE IF color_pos = 0 THEN [color EXCEPT !.red = channel.v]
    ELSE IF color_pos = 1 THEN [color EXCEPT !.green = channel.v]
    ELSE IF color_pos = 2 THEN [color EXCEPT !.blue = channel.v]
    ELSE IF color_pos = 3 THEN [color EXCEPT !.alpha = channel.v]
    ELSE color

\* parse_to_color: the locals after the loop body has read c at current_pos;
\* spans is the history of the spans handed to parse_to_color_channel
ColorStep(acc, raw, c, pos) ==
    LET channel == UnparsedPropertyValue(
                       SkipTake(raw, acc.start_pos, pos - acc.start_pos),
                       acc.line, acc.column, pos - acc.start_pos)
        Channel(cv) ==
            [acc EXCEPT !.color = SetChannel(@, acc.color_pos, cv.ret),
                        !.errors = @ \o cv.errors,
                        !.spans = Append(@, channel),
                        !.start_pos = pos + 1,
                        !.color_pos = @ + 1,
                        !.column = @ + 1]
    IN IF c # CHAR_COLOR_SEPARATOR
       THEN (IF c = CHAR_LINE_BREAK
             THEN [acc EXCEPT !.line = @ + 1, !.column = 0]
             ELSE [acc EXCEPT !.column = @ + 1])
       ELSE Channel(parse_to_color_channel(channel))

RECURSIVE ColorLoop(_, _, _)
ColorLoop(acc, raw, pos) ==
    IF pos >= Len(raw) THEN acc
    ELSE ColorLoop(ColorStep(acc, raw, raw[pos + 1], pos), raw, pos + 1)

\* parse_to_color: after the loop, the last channel is read only `if start_pos > 0`
ColorFinish(acc, raw) ==
    LET len == Len(raw) - acc.start_pos + 1
        channel == UnparsedPropertyValue(SkipTake(raw, acc.start_pos, len),
                                         acc.line, acc.column, len)
        Channel(cv) == [ret |-> SetChannel(acc.color, acc.color_pos, cv.ret),
                        errors |-> acc.errors \o cv.errors,
                        spans |-> Append(acc.spans, channel)]
    IN IF acc.start_pos > 0
       THEN Channel(parse_to_color_channel(channel))
       ELSE [ret |-> acc.color, errors |-> acc.errors, spans |-> acc.spans]

\* parse_to_color: [ret: StepmaniaColor, errors, spans]
parse_to_color(value) ==
    ColorFinish(ColorLoop([start_pos |-> 0, line |-> value.line,
                           column |-> value.column, color |-> DefaultColor,
                           color_pos |-> 0, errors |-> <<>>, spans |-> <<>>],
                          value.raw, 0),
                value.raw)

(***************************************************************************)
(* Record mappers: [ret: Option<record>, errors, panicked].  panicked is   *)
(* Vec::remove / Option::unwrap on a field the group does not have.        *)
(***************************************************************************)

NoErrors(x) == [ret |-> x, errors |-> <<>>]

\* parse_to_visual_change
parse_to_visual_change(entry) ==
    LET len == Len(entry)
        Change(beat, rate, crossfade, stretch_rewind, stretch_no_loop, color1, color2) ==
            [ret |-> Some([beat |-> IF beat.ret.some THEN beat.ret.v ELSE I64(0),
                           path |-> IF len > 1 THEN Str(entry[2].raw) ELSE "",
                           play_rate |-> rate.ret,
                           crossfade |-> crossfade.ret,
                           stretch_rewind |-> stretch_rewind.ret,
                           stretch_no_loop |-> stretch_no_loop.ret,
                           effect |-> IF len > 6 THEN Str(entry[7].raw) ELSE "",
                           file2 |-> IF len > 7 THEN Str(entry[8].raw) ELSE "",
                           transition |-> IF len > 8 THEN Str(entry[9].raw) ELSE "",
                           color1 |-> color1.ret,
                           color2 |-> color2.ret]),
             errors |-> beat.errors \o rate.errors \o crossfade.errors
                        \o stretch_rewind.errors \o stretch_no_loop.errors
                        \o color1.errors \o color2.errors,
             panicked |-> FALSE]
        PlayRate(fp, float) ==
            IF float.some THEN NoErrors(F32AsI64(float.v))
            ELSE [ret |-> I64(0),
                  errors |-> <<ParseError("StepmaniaInvalidNumber",
                                          fp.line, fp.column, fp.len)>>]
    IN Change(IF len > 0 THEN parse_to_number(entry[1], PRECISION_TIME)
              ELSE NoErrors(None),
              IF len > 2 THEN PlayRate(entry[3], parse_f32(trim(entry[3].raw)))
              ELSE NoErrors(I64(0)),
              IF len > 3 THEN parse_to_bool(entry[4]) ELSE NoErrors(FALSE),
              IF len > 4 THEN parse_to_bool(entry[5]) ELSE NoErrors(FALSE),
              IF len > 5 THEN parse_to_bool(entry[6]) ELSE NoErrors(FALSE),
              IF len > 9 THEN parse_to_color(entry[10]) ELSE NoErrors(DefaultColor),
              IF len > 10 THEN parse_to_color(entry[11]) ELSE NoErrors(DefaultColor))

Panicked == [ret |-> None, errors |-> <<>>, panicked |-> TRUE]

\* parse_to_instrument_track
parse_to_instrument_track(group) ==
    IF Len(group) < 2 THEN Panicked
    ELSE [ret |-> Some([instrument |-> Str(trim(group[1].raw)),
                        file |-> Str(trim(group[2].raw))]),
          errors |-> <<>>, panicked |-> FALSE]

\* parse_to_timed_duration
parse_to_timed_duration(entry) ==
    LET Timed(beat, duration) ==
            [ret |-> IF ~beat.ret.some \/ ~duration.ret.some THEN None
                     ELSE Some([beat |-> beat.ret.v, duration |-> duration.ret.v]),
             errors |-> beat.errors \o duration.errors, panicked |-> FALSE]
    IN IF Len(entry) < 2 THEN Panicked
       ELSE Timed(parse_to_number(entry[1], PRECISION_TIME),
                  parse_to_number(entry[2], PRECISION_TIME))

\* parse_to_timed_bpm
parse_to_timed_bpm(entry) ==
    LET Timed(beat, bpm) ==
            [ret |-> IF ~beat.ret.some \/ ~bpm.ret.some THEN None
                     ELSE Some([beat |-> beat.ret.v, bpm |-> bpm.ret.v]),
             errors |-> beat.errors \o bpm.errors, panicked |-> FALSE]
    IN IF Len(entry) < 2 THEN Panicked
       ELSE Timed(parse_to_number(entry[1], PRECISION_TIME),
                  parse_to_number(entry[2], PRECISION_TIME))

\* parse_to_timed_time_signature keeping the record of a group whose numerator
\* or denominator is not a number, with 0 in its place
parse_to_timed_time_signature_partial(entry) ==
    LET OrZero(x) == IF x.some THEN x.v ELSE I64(0)
        Timed(beat, numerator, denominator) ==
            [ret |-> IF ~beat.ret.some THEN None
                     ELSE Some([beat |-> beat.ret.v, numerator |-> OrZero(numerator),
                                denominator |-> OrZero(denominator)]),
             errors |-> beat.errors, panicked |-> FALSE]
    IN IF Len(entry) < 3 THEN Panicked
       ELSE Timed(parse_to_number(entry[1], PRECISION_TIME),
                  parse_u8(trim(entry[2].raw)), parse_u8(trim(entry[3].raw)))

\* parse_to_timed_time_signature
parse_to_timed_time_signature(entry) ==
    LET Timed(beat, numerator, denominator) ==
            [ret |-> IF ~beat.ret.some \/ ~numerator.some \/ ~denominator.some
                     THEN None
                     ELSE Some([beat |-> beat.ret.v, numerator |-> numerator.v,
                                denominator |-> denominator.v]),
             errors |-> beat.errors, panicked |-> FALSE]
    IN IF Len(entry) < 3 THEN Panicked
       ELSE Timed(parse_to_number(entry[1], PRECISION_TIME),
                  parse_u8(trim(entry[2].raw)), parse_u8(trim(entry[3].raw)))

\* parse_to_timed_number
parse_to_timed_number(entry) ==
    LET Timed(beat, value) ==
            [ret |-> IF ~beat.ret.some \/ ~value.some THEN None
                     ELSE Some([beat |-> beat.ret.v, value |-> value.v]),
             errors |-> beat.errors, panicked |-> FALSE]
    IN IF Len(entry) < 2 THEN Panicked
       ELSE Timed(parse_to_number(entry[1], PRECISION_TIME),
                  parse_i32(trim(entry[2].raw)))

\* parse_to_timed_combo_change
parse_to_timed_combo_change(entry) ==
    LET Timed(beat, hit, miss) ==
            [ret |-> IF ~beat.ret.some \/ ~hit.some \/ ~miss.some THEN None
                     ELSE Some([beat |-> beat.ret.v, hit |-> hit.v, miss |-> miss.v]),
             errors |-> beat.errors, panicked |-> FALSE]
    IN IF Len(entry) < 3 THEN Panicked
       ELSE Timed(parse_to_number(entry[1], PRECISION_TIME),
                  parse_u32(trim(entry[2].raw)), parse_u32(trim(entry[3].raw)))

\* parse_to_timed_speed_change
parse_to_timed_speed_change(entry) ==
    LET Timed(beat, ratio, duration, in_seconds) ==
            [ret |-> IF \/ ~beat.ret.some \/ ~ratio.some
                        \/ ~duration.ret.some \/ ~in_seconds.some
                     THEN None
                     ELSE Some([beat |-> beat.ret.v, ratio |-> ratio.v,
                                duration |-> duration.ret.v,
                                in_seconds |-> in_seconds.v = I64(1)]),
             errors |-> beat.errors \o duration.errors, panicked |-> FALSE]
    IN IF Len(entry) < 4 THEN Panicked
       ELSE Timed(parse_to_number(entry[1], PRECISION_TIME),
                  parse_f32(trim(entry[2].raw)),
                  parse_to_number(entry[3], PRECISION_TIME),
                  parse_u32(trim(entry[4].raw)))

\* parse_to_timed_scroll_speed_change
parse_to_timed_scroll_speed_change(entry) ==
    LET Timed(beat, factor) ==
            [ret |-> IF ~beat.ret.some \/ ~factor.some THEN None
                     ELSE Some([beat |-> beat.ret.v, factor |-> factor.v]),
             errors |-> beat.errors, panicked |-> FALSE]
    IN IF Len(entry) < 2 THEN Panicked
       ELSE Timed(parse_to_number(entry[1], PRECISION_TIME),
                  parse_f32(trim(entry[2].raw)))

\* parse_to_timed_label
parse_to_timed_label(entry) ==
    LET Timed(beat) ==
            IF ~beat.ret.some
            THEN [ret |-> None, errors |-> beat.errors, panicked |-> FALSE]
            ELSE IF Len(entry) < 2 THEN Panicked
            ELSE [ret |-> Some([beat |-> beat.ret.v,
                                label |-> Str(trim(entry[2].raw))]),
                  errors |-> beat.errors, panicked |-> FALSE]
    IN IF Len(entry) < 1 THEN Panicked
       ELSE Timed(parse_to_number(entry[1], PRECISION_TIME))

\* the closures parse_from_string hands to parse_value_group
mapper_fn(mapper, group) ==
    CASE mapper = "parse_to_visual_change" -> parse_to_visual_change(group)
      [] mapper = "parse_to_instrument_track" -> parse_to_instrument_track(group)
      [] mapper = "parse_to_timed_duration" -> parse_to_timed_duration(group)
      [] mapper = "parse_to_timed_bpm" -> parse_to_timed_bpm(group)
      [] mapper = "parse_to_timed_time_signature" ->
             parse_to_timed_time_signature(group)
      [] mapper = "parse_to_timed_number" -> parse_to_timed_number(group)
      [] mapper = "parse_to_timed_combo_change" -> parse_to_timed_combo_change(group)
      [] mapper = "parse_to_timed_speed_change" -> parse_to_timed_speed_change(group)
      [] mapper = "parse_to_timed_scroll_speed_change" ->
             parse_to_timed_scroll_speed_change(group)
      [] mapper = "parse_to_timed_label" -> parse_to_timed_label(group)

RECURSIVE SumLen(_)
SumLen(entry) == IF entry = <<>> THEN 0 ELSE Head(entry).len + SumLen(Tail(entry))

\* add_value_count_error: the diagnostic it appends
add_value_count_error(entry) ==
    ParseError("StepmaniaInvalidValueCount", entry[1].line, entry[1].column,
               Len(entry) - 1 + SumLen(entry))

\* parse_value_group: the loop body for one group
ValueGroupStep(acc, group, min, max, mapper) ==
    LET len == Len(group)
        Push(val) ==
            [list |-> IF val.ret.some THEN Append(acc.list, val.ret.v) ELSE acc.list,
             errors |-> acc.errors
                        \o (IF len < max THEN <<add_value_count_error(group)>> ELSE <<>>)
                        \o val.errors,
             panicked |-> val.panicked]
    IN IF acc.panicked \/ len < min THEN acc
       ELSE IF len < max /\ len = 0 THEN [acc EXCEPT !.panicked = TRUE]
       ELSE Push(mapper_fn(mapper, group))

RECURSIVE ValueGroupLoop(_, _, _, _, _)
ValueGroupLoop(acc, groups, min, max, mapper) ==
    IF groups = <<>> THEN acc
    ELSE ValueGroupLoop(ValueGroupStep(acc, Head(groups), min, max, mapper),
                        Tail(groups), min, max, mapper)

\* parse_value_group: [list, errors, panicked]
parse_value_group(value, min, max, mapper) ==
    ValueGroupLoop([list |-> <<>>, errors |-> <<>>, panicked |-> FALSE],
                   parse_to_value_entries(value, TRUE), min, max, mapper)

RECURSIVE FirstFields(_)
FirstFields(entries) ==
    IF entries = <<>> THEN <<>>
    ELSE (IF Head(entries) = <<>> THEN <<>>
          ELSE <<Str(trim(Head(entries)[1].raw))>>) \o FirstFields(Tail(entries))

\* parse_to_string_list
parse_to_string_list(value) == FirstFields(parse_to_value_entries(value, FALSE))

(***************************************************************************)
(* Attack parser                                                           *)
(***************************************************************************)

\* parse_attack_modifiers
parse_attack_modifiers(value) == <<>>

\* an i64 result outside the type, wrapped as a build without overflow checks does
WrapI64(x) ==
    IF ~IntLeq(x, I64_MAX) THEN IntSub(x, TWO_POW_64)
    ELSE IF ~IntLeq(I64_MIN, x) THEN IntAdd(x, TWO_POW_64)
    ELSE x

\* the match of parse_attacks with a `time` arm that leaves the rotation where
\* it is
AttackSegment_without_reset(f, tmp_unparsed, in_loop, overflow_checks) ==
    LET name == Str(f.segment_name)
        Time(number) ==
            [f EXCEPT
               !.errors = (IF f.element_idx # 0
                           THEN Append(@, ParseError("StepmaniaInvalidAttackValueOrder",
                                                     f.start_line, f.start_pos,
                                                     tmp_unparsed.len))
                           ELSE @) \o number.errors,
               !.start_val = IF number.ret.some THEN number.ret.v ELSE @]
        Length(number, diff) ==
            [f EXCEPT
               !.errors = @ \o number.errors,
               !.len_val = IF ~number.ret.some THEN @
                           ELSE IF name = "len" THEN number.ret.v
                           ELSE WrapI64(diff),
               !.panicked = /\ number.ret.some /\ name = "end" /\ overflow_checks
                            /\ ~InRange(diff, I64_MIN, I64_MAX)]
        Difference(number) ==
            Length(number, IF number.ret.some THEN IntSub(number.ret.v, f.start_val)
                           ELSE I64(0))
    IN IF name = "time"
       THEN Time(parse_to_number(tmp_unparsed, PRECISION_TIME))
       ELSE IF f.element_idx = 1 /\ name \in {"end", "len"}
       THEN Difference(parse_to_number(tmp_unparsed, PRECISION_TIME))
       ELSE IF f.element_idx = 2 /\ name = "mods"
       THEN [f EXCEPT
               !.list = Append(@, [start |-> f.start_val, duration |-> f.len_val,
                                   modifiers |-> parse_attack_modifiers(tmp_unparsed)]),
               !.start_val = IF in_loop THEN I64(0) ELSE @,
               !.len_val = IF in_loop THEN I64(0) ELSE @]
       ELSE [f EXCEPT
               !.errors = Append(@, ParseError("StepmaniaInvalidAttackValue",
                                               f.start_line, f.start_pos,
                                               tmp_unparsed.len))]

\* the match of parse_attacks with a `mods` arm that leaves start and duration
\* as they are
AttackSegment_keeping_accumulator(f, tmp_unparsed, in_loop, overflow_checks) ==
    LET name == Str(f.segment_name)
        Time(number) ==
            [f EXCEPT
               !.errors = (IF f.element_idx # 0
                           THEN Append(@, ParseError("StepmaniaInvalidAttackValueOrder",
                                                     f.start_line, f.start_pos,
                                                     tmp_unparsed.len))
                           ELSE @) \o number.errors,
               !.element_idx = 0,
               !.start_val = IF number.ret.some THEN number.ret.v ELSE @]
        Length(number, diff) ==
            [f EXCEPT
               !.errors = @ \o number.errors,
               !.len_val = IF ~number.ret.some THEN @
                           ELSE IF name = "len" THEN number.ret.v
                           ELSE WrapI64(diff),
               !.panicked = /\ number.ret.some /\ name = "end" /\ overflow_checks
                            /\ ~InRange(diff, I64_MIN, I64_MAX)]
        Difference(number) ==
            Length(number, IF number.ret.some THEN IntSub(number.ret.v, f.start_val)
                           ELSE I64(0))
    IN IF name = "time"
       THEN Time(parse_to_number(tmp_unparsed, PRECISION_TIME))
       ELSE IF f.element_idx = 1 /\ name \in {"end", "len"}
       THEN Difference(parse_to_number(tmp_unparsed, PRECISION_TIME))
       ELSE IF f.element_idx = 2 /\ name = "mods"
       THEN [f EXCEPT
               !.list = Append(@, [start |-> f.start_val, duration |-> f.len_val,
                                   modifiers |-> parse_attack_modifiers(tmp_unparsed)])]
       ELSE [f EXCEPT
               !.errors = Append(@, ParseError("StepmaniaInvalidAttackValue",
                                               f.start_line, f.start_pos,
                                               tmp_unparsed.len))]

\* parse_attacks: `match (element_idx, segment_name.as_str())` on one segment;
\* overflow_checks: the build panics on arithmetic overflow (a debug build)
AttackSegment(f, tmp_unparsed, in_loop, overflow_checks) ==
    LET name == Str(f.segment_name)
        Time(number) ==
            [f EXCEPT
               !.errors = (IF f.element_idx # 0
                           THEN Append(@, ParseError("StepmaniaInvalidAttackValueOrder",
                                                     f.start_line, f.start_pos,
                                                     tmp_unparsed.len))
                           ELSE @) \o number.errors,
               !.element_idx = 0,
               !.start_val = IF number.ret.some THEN number.ret.v ELSE @]
        Length(number, diff) ==
            [f EXCEPT
               !.errors = @ \o number.errors,
               !.len_val = IF ~number.ret.some THEN @
                           ELSE IF name = "len" THEN number.ret.v
                           ELSE WrapI64(diff),
               !.panicked = /\ number.ret.some /\ name = "end" /\ overflow_checks
                            /\ ~InRange(diff, I64_MIN, I64_MAX)]
        Difference(number) ==
            Length(number, IF number.ret.some THEN IntSub(number.ret.v, f.start_val)
                           ELSE I64(0))
    IN IF name = "time"
       THEN Time(parse_to_number(tmp_unparsed, PRECISION_TIME))
       ELSE IF f.element_idx = 1 /\ name \in {"end", "len"}
       THEN Difference(parse_to_number(tmp_unparsed, PRECISION_TIME))
       ELSE IF f.element_idx = 2 /\ name = "mods"
       THEN [f EXCEPT
               !.list = Append(@, [start |-> f.start_val, duration |-> f.len_val,
                                   modifiers |-> parse_attack_modifiers(tmp_unparsed)]),
               !.start_val = IF in_loop THEN I64(0) ELSE @,
               !.len_val = IF in_loop THEN I64(0) ELSE @]
       ELSE [f EXCEPT
               !.errors = Append(@, ParseError("StepmaniaInvalidAttackValue",
                                               f.start_line, f.start_pos,
                                               tmp_unparsed.len))]

\* parse_attacks: the locals after the loop body has read c
AttackStep(f, raw, c, overflow_checks) ==
    LET len == f.current_pos - f.start_pos
        text == SkipTake(raw, f.start_pos, len)
        Advanced(g) ==
            [g EXCEPT !.current_line = IF c = CHAR_LINE_BREAK THEN @ + 1 ELSE @,
                      !.current_pos = @ + 1]
        Matched(h) ==
            [h EXCEPT !.start_line = f.current_line,
                      !.start_pos = f.current_pos + 1,
                      !.element_idx = (@ + 1) % 3]
    IN Advanced(IF c = CHAR_ATTACK_KEY_SEPARATOR
                THEN [f EXCEPT !.segment_name = to_lowercase(trim(text)),
                               !.start_line = f.current_line,
                               !.start_pos = f.current_pos + 1]
                ELSE IF c = CHAR_ATTACK_VALUE_SEPARATOR
                THEN Matched(AttackSegment(
                                 f, UnparsedPropertyValue(text, f.start_line,
                                                          f.start_pos, len),
                                 TRUE, overflow_checks))
                ELSE f)

RECURSIVE AttackLoop(_, _, _)
AttackLoop(f, raw, overflow_checks) ==
    IF f.panicked \/ f.current_pos >= Len(raw) THEN f
    ELSE AttackLoop(AttackStep(f, raw, raw[f.current_pos + 1], overflow_checks),
                    raw, overflow_checks)

\* parse_attacks: the locals before the loop
AttackStart(value) ==
    [list |-> <<>>, segment_name |-> <<>>, start_val |-> I64(0), len_val |-> I64(0),
     element_idx |-> 0, current_line |-> value.line, current_pos |-> 0,
     start_line |-> value.line, start_pos |-> 0, errors |-> <<>>,
     panicked |-> FALSE]

\* parse_attacks: the segment after the last `:`, handled after the loop
AttackFinish(f, raw, overflow_checks) ==
    LET len == Len(raw) - f.start_pos
    IN IF f.panicked THEN f
       ELSE AttackSegment(f, UnparsedPropertyValue(SkipTake(raw, f.start_pos, len),
                                                   f.start_line, f.start_pos, len),
                          FALSE, overflow_checks)

\* parse_attacks: [list, errors, panicked]
parse_attacks(value, overflow_checks) ==
    LET Return(f) == [list |-> f.list, errors |-> f.errors, panicked |-> f.panicked]
    IN Return(AttackFinish(AttackLoop(AttackStart(value), value.raw, overflow_checks),
                           value.raw, overflow_checks))

(***************************************************************************)
(* Note-chart parser                                                       *)
(***************************************************************************)

NoteChars == {"0", "1", "2", "3", "4", "M", "K", "L", "F"}

\* a decoding of the note characters with `2` and `3` exchanged
from_char_exchanged(c) ==
    CASE c = "0" -> "Empty"
      [] c = "1" -> "Tap"
      [] c = "3" -> "HoldHead"
      [] c = "4" -> "RollHead"
      [] c = "2" -> "Tail"
      [] c = "M" -> "Mine"
      [] c = "K" -> "Keysound"
      [] c = "L" -> "Lift"
      [] c = "F" -> "Fake"
      [] OTHER -> "Empty"

\* StepmaniaNoteType::from_char
from_char(c) ==
    CASE c = "0" -> "Empty"
      [] c = "1" -> "Tap"
      [] c = "2" -> "HoldHead"
      [] c = "4" -> "RollHead"
      [] c = "3" -> "Tail"
      [] c = "M" -> "Mine"
      [] c = "K" -> "Keysound"
      [] c = "L" -> "Lift"
      [] c = "F" -> "Fake"
      [] OTHER -> "Empty"

\* StepmaniaDifficulty::from_str
from_str(str) ==
    LET low == Str(to_lowercase(str))
    IN CASE low = "beginner" -> "Beginner"
         [] low = "easy" -> "Easy"
         [] low = "medium" -> "Medium"
         [] low = "hard" -> "Hard"
         [] low = "challange" -> "Challenge"
         [] OTHER -> "Edit"

\* a successor that goes from Rating to Notes
next_skipping(s) ==
    CASE s = "Type" -> "Credits"
      [] s = "Credits" -> "Difficulty"
      [] s = "Difficulty" -> "Rating"
      [] OTHER -> "Notes"

\* ChartParserState::next
next(s) ==
    CASE s = "Type" -> "Credits"
      [] s = "Credits" -> "Difficulty"
      [] s = "Difficulty" -> "Rating"
      [] s = "Rating" -> "RadioValues"
      [] OTHER -> "Notes"

\* StepmaniaRadarValues::default; the f32 0.0
DefaultRadarValues ==
    LET zero == [kind |-> "num", neg |-> FALSE, mag |-> <<>>, exp10 |-> 0]
    IN [stream |-> zero, voltage |-> zero, air |-> zero, freeze |-> zero,
        chaos |-> zero]

\* parse_to_radio_values
parse_to_radio_values(value) == Some(DefaultRadarValues)

\* StepmaniaChart::default
DefaultChart ==
    [name |-> None, step_style |-> "", chart_style |-> None, credit |-> "",
     difficulty |-> "Edit", meter |-> I64(0), radar_values |-> DefaultRadarValues,
     data |-> [column_count |-> 0, notes |-> <<>>]]

\* parse_to_chart: the locals before the loop
ChartStart(value) ==
    [state |-> "Type", start_idx |-> 0, line |-> value.line, col |-> value.column,
     chart |-> DefaultChart, current_beat_notes |-> <<>>, idx |-> 0,
     errors |-> <<>>]

\* parse_to_chart: a `:` read in one of the five states before Notes
ChartProperty(f, raw) ==
    LET str == trim(SkipTake(raw, f.start_idx, f.idx))
        Rating(rating) ==
            IF rating.some THEN [f EXCEPT !.chart.meter = rating.v]
            ELSE [f EXCEPT !.errors =
                      Append(@, ParseError("StepmaniaInvalidNumber",
                                           f.line, f.col, Len(str)))]
        Read(g) ==
            [g EXCEPT !.col = @ + 1, !.start_idx = f.idx + 1, !.state = next(f.state)]
    IN Read(CASE f.state = "Type" -> [f EXCEPT !.chart.step_style = Str(str)]
              [] f.state = "Credits" -> [f EXCEPT !.chart.credit = Str(str)]
              [] f.state = "Difficulty" ->
                     [f EXCEPT !.chart.difficulty = from_str(str)]
              [] f.state = "Rating" -> Rating(parse_u16(str))
              [] f.state = "RadioValues" ->
                     [f EXCEPT !.chart.radar_values =
                          parse_to_radio_values(UnparsedPropertyValue(
                              str, f.line, f.col, Len(str))).v])

\* parse_to_chart: a character read in state Notes
ChartNotes(f, c) ==
    IF c = CHAR_INLINE_ATTACK_START
    THEN [f EXCEPT !.state = "InlineAttack", !.col = @ + 1]
    ELSE IF c = CHAR_INLINE_KEYSOUND_START
    THEN [f EXCEPT !.state = "InlineKeysound", !.col = @ + 1]
    ELSE IF c = CHAR_BEAT_SEPARATOR
    THEN [f EXCEPT !.chart.data.notes = Append(@, f.current_beat_notes),
                   !.current_beat_notes = <<>>,
                   !.col = @ + 1]
    ELSE IF c \in NoteChars
    THEN [f EXCEPT !.current_beat_notes =
                       Append(@, [note_type |-> from_char(c), actions |-> <<>>,
                                  keysound |-> None]),
                   !.col = @ + 1]
    ELSE IF c = CHAR_LINE_BREAK
    THEN [f EXCEPT !.chart.data.column_count =
                       IF /\ @ = 0
                          /\ Len(f.current_beat_notes) > 0
                          /\ Len(f.current_beat_notes) <= 255
                       THEN Len(f.current_beat_notes) ELSE @,
                   !.col = 1,
                   !.line = @ + 1]
    ELSE [f EXCEPT !.col = @ + 1]

\* parse_to_chart: the locals after the loop body has read c at f.idx
ChartStep(f, raw, c) ==
    LET Enumerated(g) == [g EXCEPT !.idx = @ + 1]
    IN Enumerated(
           IF f.state \in {"Type", "Credits", "Difficulty", "Rating", "RadioValues"}
           THEN (IF c # CHAR_NOTE_PROP_SEPARATOR
                 THEN (IF c = CHAR_LINE_BREAK
                       THEN [f EXCEPT !.col = 1, !.line = @ + 1]
                       ELSE [f EXCEPT !.col = @ + 1])
                 ELSE ChartProperty(f, raw))
           ELSE IF f.state = "InlineAttack"
           THEN (IF c = CHAR_INLINE_ATTACK_END
                 THEN [f EXCEPT !.state = "Notes"] ELSE f)
           ELSE IF f.state = "InlineKeysound"
           THEN (IF c = CHAR_INLINE_KEYSOUND_END
                 THEN [f EXCEPT !.state = "Notes", !.col = @ + 1] ELSE f)
           ELSE ChartNotes(f, c))

RECURSIVE ChartLoop(_, _)
ChartLoop(f, raw) ==
    IF f.idx >= Len(raw) THEN f
    ELSE ChartLoop(ChartStep(f, raw, raw[f.idx + 1]), raw)

\* an end of the loop that appends the row in progress, empty or not
ChartFinish_appending(f) ==
    [f EXCEPT !.chart.data.notes = Append(@, f.current_beat_notes)]

\* parse_to_chart: after the loop, the row in progress is flushed
ChartFinish(f) ==
    IF Len(f.current_beat_notes) > 0
    THEN [f EXCEPT !.chart.data.notes = Append(@, f.current_beat_notes)]
    ELSE f

\* parse_to_chart: [ret: Option<StepmaniaChart>, errors]
parse_to_chart(value) ==
    LET Return(f) == [ret |-> Some(f.chart), errors |-> f.errors]
    IN Return(ChartFinish(ChartLoop(ChartStart(value), value.raw)))

(***************************************************************************)
(* parse_from_string: the dispatch on the property name                    *)
(***************************************************************************)

\* StepmaniaFile::default
DefaultFile ==
    [version |-> None, title |-> None, title_translit |-> None, subtitle |-> None,
     subtitle_translit |-> None, artist |-> None, artist_translit |-> None,
     genre |-> None, credit |-> None, banner |-> None, background |-> None,
     lyrics_path |-> None, cd_title |-> None, music |-> None, origin |-> None,
     jacket |-> None, cd_image |-> None, disk_image |-> None, preview |-> None,
     sample_start |-> None, sample_length |-> None, last_second_hint |-> None,
     display_bpm |-> None, selectable |-> FALSE, instrument_tracks |-> <<>>,
     background_changes |-> <<>>, background_changes2 |-> <<>>,
     background_changes3 |-> <<>>, animations |-> <<>>,
     foreground_changes |-> <<>>, offset |-> None, keysounds |-> <<>>,
     stops |-> <<>>, delays |-> <<>>, fakes |-> <<>>, bpms |-> <<>>,
     time_signatures |-> <<>>, attacks |-> <<>>, tick_counts |-> <<>>,
     combos |-> <<>>, speeds |-> <<>>, scrolls |-> <<>>, warps |-> <<>>,
     labels |-> <<>>, notes |-> None]

\* the arms `"name" => step.field = Some(value.raw.trim().to_string())`
StringArms ==
    "version" :> "version" @@ "title" :> "title"
    @@ "titletranslit" :> "title_translit" @@ "subtitle" :> "subtitle"
    @@ "subtitletranslit" :> "subtitle_translit" @@ "artist" :> "artist"
    @@ "artisttranslist" :> "artist_translit" @@ "genre" :> "genre"
    @@ "credit" :> "credit" @@ "banner" :> "banner"
    @@ "background" :> "background" @@ "lyricspath" :> "lyrics_path"
    @@ "cdtitle" :> "cd_title" @@ "music" :> "music" @@ "origin" :> "origin"
    @@ "jacket" :> "jacket" @@ "cdimage" :> "cd_image"
    @@ "diskimage" :> "disk_image" @@ "preview" :> "preview"

\* the arms `"name" => step.field = self.parse_to_number(value, PRECISION_TIME)`
NumberArms ==
    "samplestart" :> "sample_start" @@ "samplelength" :> "sample_length"
    @@ "offset" :> "offset" @@ "lastsecondhint" :> "last_second_hint"

GroupArm(field, min, max, mapper) ==
    [field |-> field, min |-> min, max |-> max, mapper |-> mapper]

\* the arms `"name" => step.field = self.parse_value_group(&value, min, max, mapper)`
GroupArms ==
    "bgchanges" :> GroupArm("background_changes", 1, 11, "parse_to_visual_change")
    @@ "bgchanges2" :> GroupArm("background_changes2", 1, 11, "parse_to_visual_change")
    @@ "bgchanges3" :> GroupArm("background_changes3", 1, 11, "parse_to_visual_change")
    @@ "fgchanges" :> GroupArm("foreground_changes", 1, 11, "parse_to_visual_change")
    @@ "animations" :> GroupArm("animations", 1, 11, "parse_to_visual_change")
    @@ "instrumenttracks" :>
           GroupArm("instrument_tracks", 2, 2, "parse_to_instrument_track")
    @@ "freezes" :> GroupArm("stops", 2, 2, "parse_to_timed_duration")
    @@ "stops" :> GroupArm("stops", 2, 2, "parse_to_timed_duration")
    @@ "delays" :> GroupArm("delays", 2, 2, "parse_to_timed_duration")
    @@ "fakes" :> GroupArm("fakes", 2, 2, "parse_to_timed_duration")
    @@ "bpms" :> GroupArm("bpms", 2, 2, "parse_to_timed_bpm")
    @@ "timesignatures" :>
           GroupArm("time_signatures", 3, 3, "parse_to_timed_time_signature")
    @@ "tickcounts" :> GroupArm("tick_counts", 2, 2, "parse_to_timed_number")
    @@ "combos" :> GroupArm("combos", 3, 3, "parse_to_timed_combo_change")
    @@ "speeds" :> GroupArm("speeds", 4, 4, "parse_to_timed_speed_change")
    @@ "scrolls" :> GroupArm("scrolls", 2, 2, "parse_to_timed_scroll_speed_change")
    @@ "labels" :> GroupArm("labels", 2, 2, "parse_to_timed_label")

Assigned(st, errs) == [step |-> st, errors |-> errs, panicked |-> FALSE]

\* the arm `_` with the diagnostic that the source has commented out
Unhandled_reported(st, value) ==
    Assigned(st, <<ParseError("StepmaniaUnknownPropertyName",
                              value.line, value.column, value.len)>>)

\* the arm `_ => { }`: the record as it is, no diagnostic
Unhandled(st, value) == Assigned(st, <<>>)

\* parse_from_string: the body of `for (name, value) in result.unwrap()`
Assign(st, name, value, overflow_checks) ==
    LET Value(field, r) == Assigned([st EXCEPT ![field] = r.ret], r.errors)
        List(field, r) == [step |-> [st EXCEPT ![field] = r.list], errors |-> r.errors,
                           panicked |-> r.panicked]
    IN IF name \in DOMAIN StringArms
       THEN Assigned([st EXCEPT ![StringArms[name]] = Some(Str(trim(value.raw)))], <<>>)
       ELSE IF name = "selectable"
       THEN (IF Str(trim(to_lowercase(value.raw)))
                    \in {"yes", "roulette", "es", "omes", "1"}
             THEN Assigned(st, <<>>)
             ELSE Assigned([st EXCEPT !.selectable = FALSE], <<>>))
       ELSE IF name \in DOMAIN NumberArms
       THEN Value(NumberArms[name], parse_to_number(value, PRECISION_TIME))
       ELSE IF name = "displaybpm"
       THEN Value("display_bpm", parse_to_number_range(value, PRECISION_TIME))
       ELSE IF name \in DOMAIN GroupArms
       THEN List(GroupArms[name].field,
                 parse_value_group(value, GroupArms[name].min, GroupArms[name].max,
                                   GroupArms[name].mapper))
       ELSE IF name = "keysounds"
       THEN Assigned([st EXCEPT !.keysounds = parse_to_string_list(value)], <<>>)
       ELSE IF name = "attacks"
       THEN List("attacks", parse_attacks(value, overflow_checks))
       ELSE IF name = "notes"
       THEN Value("notes", parse_to_chart(value))
       ELSE Unhandled(st, value)

(***************************************************************************)
(* parse_to_property_map, one action for each ParserState, and the rest of *)
(* parse_from_string                                                       *)
(***************************************************************************)

\* the character the loop of parse_to_property_map reads next
CurrentChar == SubSeq(input, current_pos + 1, current_pos + 1)

Scanning == pc = "lex" /\ current_pos < Len(input)

\* `self.update_read(c); continue;`
Advance(c) ==
    /\ line' = update_read(line, col, c).line
    /\ col' = update_read(line, col, c).col
    /\ current_pos' = current_pos + 1

\* ParserState::Clean
LexClean ==
    /\ Scanning /\ state = "Clean"
    /\ \E overflow_checks \in BOOLEAN :
           LET c == CurrentChar
               closed == cleanup_error(latest_errors, errors,
                                       "StepmaniaExpectedPropertyStart", current_pos,
                                       overflow_checks)
           IN IF is_whitespace(c)
              THEN /\ Advance(c)
                   /\ UNCHANGED <<latest_errors, errors, state, start_pos, pc>>
              ELSE IF c # CHAR_PROPERTY_START
              THEN /\ latest_errors' = create_and_push_error(
                          latest_errors, "StepmaniaExpectedPropertyStart", current_pos)
                   /\ Advance(c)
                   /\ UNCHANGED <<errors, state, start_pos, pc>>
              ELSE IF closed.panicked
              THEN /\ latest_errors' = closed.latest_errors
                   /\ pc' = "panicked"
                   /\ UNCHANGED <<errors, state, start_pos, line, col, current_pos>>
              ELSE /\ latest_errors' = closed.latest_errors
                   /\ errors' = closed.errors
                   /\ state' = "Name"
                   /\ start_pos' = current_pos + 1
                   /\ Advance(c)
                   /\ UNCHANGED pc
    /\ UNCHANGED <<input, latest_name, map, todo, step, inserted, arg, ret, frame>>

\* ParserState::Name
LexName ==
    /\ Scanning /\ state = "Name"
    /\ \E overflow_checks \in BOOLEAN :
           LET c == CurrentChar
               name == to_lowercase(SkipTake(Chars(input), start_pos,
                                             current_pos - start_pos))
               duplicate == [create_error("StepmaniaDuplicatePropertyName", start_pos)
                                 EXCEPT !.len = Len(name)]
               checked == IF Str(name) \in DOMAIN map THEN Append(errors, duplicate)
                          ELSE errors
               closed == cleanup_error(latest_errors, checked,
                                       "StepmaniaExpectedPropertyStart", current_pos,
                                       overflow_checks)
           IN IF is_whitespace(c)
              THEN /\ latest_errors' = create_and_push_error(
                          latest_errors, "StepmaniaInvalidPropertyName", current_pos)
                   /\ Advance(c)
                   /\ UNCHANGED <<errors, state, start_pos, latest_name, pc>>
              ELSE IF c # CHAR_VALUE_START
              THEN /\ Advance(c)
                   /\ UNCHANGED <<latest_errors, errors, state, start_pos, latest_name,
                                  pc>>
              ELSE IF closed.panicked
              THEN /\ latest_name' = name
                   /\ latest_errors' = closed.latest_errors
                   /\ errors' = checked
                   /\ pc' = "panicked"
                   /\ UNCHANGED <<state, start_pos, line, col, current_pos>>
              ELSE /\ latest_name' = name
                   /\ latest_errors' = closed.latest_errors
                   /\ errors' = closed.errors
                   /\ state' = "Value"
                   /\ start_pos' = current_pos + 1
                   /\ Advance(c)
                   /\ UNCHANGED pc
    /\ UNCHANGED <<input, map, todo, step, inserted, arg, ret, frame>>

\* a map.insert that keeps the value already stored under the key
insert_if_absent(m, key, value) ==
    [k \in DOMAIN m \cup {key} |-> IF k \in DOMAIN m THEN m[k] ELSE value]

\* HashMap::insert: the map after `map.insert(key, value)`
insert(m, key, value) ==
    [k \in DOMAIN m \cup {key} |-> IF k = key THEN value ELSE m[k]]

\* ParserState::Value
LexValue ==
    /\ Scanning /\ state = "Value"
    /\ LET c == CurrentChar
           len == current_pos - start_pos
           value == UnparsedPropertyValue(SkipTake(Chars(input), start_pos, len),
                                          line, col, len)
           key == Str(latest_name)
       IN /\ IF c = CHAR_VALUE_START
             THEN /\ latest_errors' = create_and_push_error(
                         latest_errors, "StepmaniaExpectedValueEnd", current_pos)
                  /\ UNCHANGED <<map, inserted, state>>
             ELSE IF c # CHAR_VALUE_END
             THEN UNCHANGED <<latest_errors, map, inserted, state>>
             ELSE /\ map' = insert(map, key, value)
                  /\ inserted' = Append(inserted, [name |-> key, value |-> value])
                  /\ state' = "Clean"
                  /\ UNCHANGED latest_errors
          /\ Advance(c)
    /\ UNCHANGED <<input, pc, start_pos, latest_name, errors, todo, step, arg, ret,
                   frame>>

\* parse_to_property_map after the loop, and `for (name, value) in result.unwrap()`
LexEnd ==
    /\ pc = "lex" /\ current_pos = Len(input)
    /\ latest_errors' = IF state = "Value"
                        THEN create_and_push_error(
                                 latest_errors, "StepmaniaExpectedValueEnd", Len(input))
                        ELSE latest_errors
    /\ todo' = DOMAIN map
    /\ pc' = "dispatch"
    /\ UNCHANGED <<input, current_pos, state, line, col, start_pos, latest_name,
                   errors, map, step, inserted, arg, ret, frame>>

\* one iteration of the loop over the map, in the order the HashMap yields
Dispatch ==
    /\ pc = "dispatch"
    /\ \E name \in todo, overflow_checks \in BOOLEAN :
           \E r \in {Assign(step, name, map[name], overflow_checks)} :
              /\ step' = r.step
              /\ errors' = errors \o r.errors
              /\ todo' = todo \ {name}
              /\ pc' = IF r.panicked THEN "panicked" ELSE "dispatch"
    /\ UNCHANGED <<input, current_pos, state, line, col, start_pos, latest_name,
                   latest_errors, map, inserted, arg, ret, frame>>

\* `Ok(step)`
Return ==
    /\ pc = "dispatch" /\ todo = {}
    /\ pc' = "done"
    /\ ret' = Some(step)
    /\ UNCHANGED <<input, current_pos, state, line, col, start_pos, latest_name,
                   errors, latest_errors, map, todo, step, inserted, arg, frame>>

(***************************************************************************)
(* The inputs of parse_from_string                                         *)
(***************************************************************************)

\* at most this many fragments are joined into one input
MaxProps == 3

\* all sequences of at most n elements of S
SeqsUpTo(S, n) == UNION {[1..k -> S] : k \in 0..n}

\* properties (terminated or not, with stray content, a blank in the name, a
\* second `:`), some under the same name after lowercasing
Fragments ==
    {"#TITLE:a;", "#Title:b\n;", "#title:c", "#A B:d;", "x\n", " #T::e;",
     "#STOPS:1=2;", "#FREEZES:3=4;"}

JoinedInputs == {Str(fs) : fs \in SeqsUpTo(Fragments, MaxProps)}

\* one property, with and without content around it
SingleInputs ==
    {lead \o "#" \o name \o ":" \o value \o end \o tail :
        lead \in {"", "x ", "\n"},
        name \in {"TITLE", "Ti tle", "UNKNOWN", ""},
        value \in {"", "a", " b c ", "a:b", "a\nb"},
        end \in {";", ""},
        tail \in {"", "y"}}

SimpleStringNames ==
    {"VERSION", "TITLE", "TITLETRANSLIT", "SUBTITLE", "SUBTITLETRANSLIT", "ARTIST",
     "ARTISTTRANSLIT", "GENRE", "CREDIT", "BANNER", "BACKGROUND", "LYRICSPATH",
     "CDTITLE", "MUSIC", "ORIGIN", "JACKET", "CDIMAGE", "DISKIMAGE", "PREVIEW"}

\* `#NAME:VALUE;` for each simple string property
SimpleStringValues == {"x", " hello world! "}

SimpleStringInputs ==
    {"#" \o name \o ":" \o value \o ";" :
        name \in SimpleStringNames, value \in SimpleStringValues}

\* the inputs of the tests of the source (long values shortened), and one input
\* for each other property
SampleInputs ==
    {"\n#TITLE:;\n",
     "\n#TITLETRANSLIT:  hello world! ;\n",
     "\n#SAMPLESTART:1.333  ;\n#SAMPLELENGTH: 83;\n",
     "\n#DISPLAYBPM:66.6668423 -240;\n",
     "\n#INSTRUMENTTRACKS:g=a.ogg,\n d= b.mp3, v =c.mp3;\n",
     "#OFFSET:-0.009;#LASTSECONDHINT:x;#SELECTABLE:YES;",
     "#BGCHANGES:1=a=1=0=0=1=e=f=t=1^.5^0^1=0^0^0,2;#FGCHANGES:x=1,=,3=;",
     "#BGCHANGES2:1=a=1.5;#BGCHANGES3:,;#ANIMATIONS:1=a=x=2;",
     "#KEYSOUNDS:a.ogg,b.ogg,;#DELAYS:1=2=3,4;#FAKES:1=x;",
     "#BPMS:0=120.5;#TIMESIGNATURES:0=4=4,1=256=4;#TICKCOUNTS:0=4,1=x;",
     "#COMBOS:0=1=1,1=-1=1;#SPEEDS:0=1.5=0=1,1=x=0=0;#SCROLLS:0=1,1=;",
     "#LABELS:0=intro,1;",
     "#ATTACKS:TIME=1:LEN=2:MODS=d:TIME=3:END=5;",
     "#ATTACKS:TIME=-1:END=9223372036854775.807;",
     "#NOTES:s:me:Hard:9:0,0:\n00\n1M\n,\n0[1]{x}\n;"}

Inputs == JoinedInputs \cup SingleInputs \cup SimpleStringInputs \cup SampleInputs

Idle == [some |-> FALSE]

\* StepmaniaParser::new, and the locals of a call to parse_from_string
NewParser ==
    /\ line = 1
    /\ col = 0
    /\ start_pos = 0
    /\ errors = <<>>
    /\ latest_errors = <<>>
    /\ latest_name = <<>>

Init ==
    /\ NewParser
    /\ input \in Inputs
    /\ pc = "lex"
    /\ current_pos = 0
    /\ state = "Clean"
    /\ map = <<>>
    /\ todo = {}
    /\ step = DefaultFile
    /\ inserted = <<>>
    /\ arg = Idle
    /\ ret = Idle
    /\ frame = Idle

Next == LexClean \/ LexName \/ LexValue \/ LexEnd \/ Dispatch \/ Return

Spec == Init /\ [][Next]_vars

(***************************************************************************)
(* parse_from_string called again on the same parser                       *)
(***************************************************************************)

\* at most this many calls are made on one parser
MaxCalls == 2

\* one property or none, with and without stray content before and after it
ReparseInputs == {"#TITLE:a;", "x", "#TITLE:a;x", "\n#OFFSET:y;\n", " #T:b"}

\* the inputs of the calls, in order
CallSequences == SeqsUpTo(ReparseInputs, MaxCalls) \ {<<>>}

InitReparse ==
    /\ NewParser
    /\ \E calls \in CallSequences :
           /\ input = Head(calls)
           /\ arg = [fn |-> "parse_from_string", inputs |-> Tail(calls)]
    /\ pc = "lex"
    /\ current_pos = 0
    /\ state = "Clean"
    /\ map = <<>>
    /\ todo = {}
    /\ step = DefaultFile
    /\ inserted = <<>>
    /\ ret = Idle
    /\ frame = Idle

\* the next call of parse_from_string: its locals are new, the fields of the
\* parser are left as the call before left them; frame keeps what that call
\* returned (history)
Reparse ==
    /\ pc = "done" /\ arg.inputs # <<>>
    /\ input' = Head(arg.inputs)
    /\ arg' = [arg EXCEPT !.inputs = Tail(@)]
    /\ frame' = Some([input |-> input, ret |-> ret, errors |-> errors,
                      fresh |-> ~frame.some])
    /\ pc' = "lex"
    /\ current_pos' = 0
    /\ state' = "Clean"
    /\ map' = <<>>
    /\ todo' = {}
    /\ step' = DefaultFile
    /\ inserted' = <<>>
    /\ ret' = Idle
    /\ UNCHANGED <<line, col, start_pos, latest_name, errors, latest_errors>>

NextReparse ==
    LexClean \/ LexName \/ LexValue \/ LexEnd \/ Dispatch \/ Return \/ Reparse

SpecReparse == InitReparse /\ [][NextReparse]_vars

(***************************************************************************)
(* The decoders called on their own: parse_to_number, parse_to_number_range *)
(***************************************************************************)

\* a fresh parser on which one decoder is called
Standalone ==
    /\ NewParser
    /\ input = ""
    /\ current_pos = 0
    /\ state = "Clean"
    /\ map = <<>>
    /\ todo = {}
    /\ step = DefaultFile
    /\ inserted = <<>>
    /\ ret = Idle

\* the span of a text that starts the input
Span(text) == UnparsedPropertyValue(Chars(text), 1, 0, Len(text))

\* the digit strings of at most n digits
DigitTexts(n) == {Str(ds) : ds \in SeqsUpTo({"0", "6"}, n)}

\* the decimal texts have at most this many integer and fraction digits
MaxIntDigits == 2
MaxFracDigits == 4

DecimalTexts ==
    {lead \o sign \o int \o frac \o trail :
        lead \in {"", " "},
        sign \in {"", "-", "+"},
        int \in DigitTexts(MaxIntDigits) \ {""},
        frac \in {""} \cup {"." \o f : f \in DigitTexts(MaxFracDigits)},
        trail \in {"", "  "}}

\* the numbers of the tests of the source, texts that are no numbers, and the
\* ends of the i64 range
OtherNumberTexts ==
    {"1.333", "1.333  ", " 83", "83", "66.6668423", "", " ", "x", "1.2.3", "--1",
     "1e3", ".", "1 .5", "9223372036854775.807", "9223372036854775.808",
     "-9223372036854775.808", "-9223372036854775.809"}

RangeParts == {"66.6668423", "66.6668423 ", "240", "-240", "", "x", "1.5", " 7 ", "2-3"}

RangeTexts == RangeParts \cup {a \o "-" \o b : a, b \in RangeParts}

Precisions == {0, 1, PRECISION_TIME}

\* spans of a second line
LaterSpans ==
    {UnparsedPropertyValue(Chars(text), 2, 5, Len(text)) :
        text \in {"7", "x", " 1.2.3", "1 .5 "}}

NumberArgs ==
    {[fn |-> "parse_to_number", value |-> Span(text), precision |-> p] :
        text \in DecimalTexts \cup OtherNumberTexts, p \in Precisions}
        \cup {[fn |-> "parse_to_number", value |-> v, precision |-> p] :
                  v \in LaterSpans, p \in Precisions}

RangeArgs ==
    {[fn |-> "parse_to_number_range", value |-> Span(text), precision |-> p] :
        text \in RangeTexts, p \in Precisions}

InitNumber ==
    /\ Standalone
    /\ pc = "call"
    /\ arg \in NumberArgs \cup RangeArgs
    /\ frame = Idle

\* self.parse_to_number(value, precision)
CallNumber ==
    /\ pc = "call" /\ arg.fn = "parse_to_number"
    /\ \E r \in {parse_to_number(arg.value, arg.precision)} :
           /\ ret' = r.ret
           /\ errors' = errors \o r.errors
    /\ pc' = "returned"
    /\ UNCHANGED <<input, current_pos, state, line, col, start_pos, latest_name,
                   latest_errors, map, todo, step, inserted, arg, frame>>

\* self.parse_to_number_range(value, precision)
CallNumberRange ==
    /\ pc = "call" /\ arg.fn = "parse_to_number_range"
    /\ \E r \in {parse_to_number_range(arg.value, arg.precision)} :
           /\ ret' = r.ret
           /\ errors' = errors \o r.errors
    /\ pc' = "returned"
    /\ UNCHANGED <<input, current_pos, state, line, col, start_pos, latest_name,
                   latest_errors, map, todo, step, inserted, arg, frame>>

NextNumber == CallNumber \/ CallNumberRange

SpecNumber == InitNumber /\ [][NextNumber]_vars

(***************************************************************************)
(* The decoders called on their own: parse_to_value_entries and            *)
(* parse_value_group                                                       *)
(***************************************************************************)

\* the texts of elems joined by sep
RECURSIVE Join(_, _)
Join(elems, sep) ==
    IF elems = <<>> THEN ""
    ELSE IF Len(elems) = 1 THEN elems[1]
    ELSE elems[1] \o sep \o Join(Tail(elems), sep)

\* a grouped value has at most this many groups and this many characters
MaxGroups == 2
MaxValueLen == 36

\* groups `a=b` with blanks and line breaks around the fields, and groups
\* that lack a field
PairGroups ==
    {a \o "=" \o b : a \in {"g", " d", "\nv "}, b \in {"a.ogg", " b", "c \n"}}
        \cup {"k=", "=m", "n"}

\* the fields of a background change, and one field more
VisualFields == <<"1", "a", "1", "0", "0", "1", "e", "f", "t", "1^1^1^1", "0^0^0^0", "z">>

\* the groups of the first n fields
FieldGroups == {Join(SubSeq(VisualFields, 1, n), "=") : n \in 0..Len(VisualFields)}

\* groups of a beat and the fields of the timed records, some of them not
\* decodable
TimedGroups ==
    {"1=2", "x=2", "1=-3", "1=4=8", "1=300=4", "1=4=y", "1=.5=2=1", "1=.5=2=5",
     "1=z=2=1", "1=.5=q=1", "1=.5=2=-1"}

\* background changes with a rate, a boolean or a color channel that cannot be
\* decoded
MixedVisualGroups ==
    {"1=a=r", "1=a=1.9=2=0=1", "1=a=1=0= 1", "1=a=1=0=0=1=e=f=t=x",
     "1=a=1=0=0=1=e=f=t=1^y^.5=0^0", "1=a=-2.5=1=1=0=e=f=t=0^1=2", "1=a==0"}

GroupValues ==
    {v \in {Join(gs, ",") : gs \in SeqsUpTo(PairGroups, MaxGroups)
                                       \cup SeqsUpTo(FieldGroups, MaxGroups)
                                       \cup SeqsUpTo(TimedGroups, MaxGroups)} :
        Len(v) <= MaxValueLen}
        \cup {"1,", "1=a,", "g=a.ogg,\n d= b.mp3, v =c.mp3"}
        \cup MixedVisualGroups

\* the (min, max, mapper) of the calls of parse_value_group
Arms == {[min |-> GroupArms[n].min, max |-> GroupArms[n].max,
          mapper |-> GroupArms[n].mapper] : n \in DOMAIN GroupArms}

EntriesArgs ==
    {[fn |-> "parse_to_value_entries", value |-> Span(text), groups |-> g] :
        text \in GroupValues, g \in BOOLEAN}

GroupArgs ==
    {[fn |-> "parse_value_group", value |-> Span(text), min |-> a.min,
      max |-> a.max, mapper |-> a.mapper] : text \in GroupValues, a \in Arms}

InitGroups ==
    /\ Standalone
    /\ pc = "call"
    /\ arg \in EntriesArgs \cup GroupArgs
    /\ frame = Idle

\* self.parse_to_value_entries(&value, groups)
CallValueEntries ==
    /\ pc = "call" /\ arg.fn = "parse_to_value_entries"
    /\ ret' = parse_to_value_entries(arg.value, arg.groups)
    /\ pc' = "returned"
    /\ UNCHANGED <<input, current_pos, state, line, col, start_pos, latest_name,
                   errors, latest_errors, map, todo, step, inserted, arg, frame>>

\* self.parse_value_group(&value, min, max, mapper)
CallValueGroup ==
    /\ pc = "call" /\ arg.fn = "parse_value_group"
    /\ \E r \in {parse_value_group(arg.value, arg.min, arg.max, arg.mapper)} :
           /\ ret' = r.list
           /\ errors' = errors \o r.errors
           /\ pc' = IF r.panicked THEN "panicked" ELSE "returned"
    /\ UNCHANGED <<input, current_pos, state, line, col, start_pos, latest_name,
                   latest_errors, map, todo, step, inserted, arg, frame>>

NextGroups == CallValueEntries \/ CallValueGroup

SpecGroups == InitGroups /\ [][NextGroups]_vars

(***************************************************************************)
(* parse_to_chart, one step for each character of the value                *)
(***************************************************************************)

\* the note grid has at most this many characters
MaxGridLen == 6

\* the five fields before the grid
ChartHeader == "s:c:Hard:9:0,0:"

Grids ==
    {Str(g) : g \in SeqsUpTo({"0", "\n", ","}, MaxGridLen)}
        \cup {"0000\n00\n", "0000\n,\n00", "\n1M\n0[1]{x}\n", "0000,\n00\n"}

\* values that end before the grid, fields with blanks and line breaks around
\* them, a `:` in the grid, every note type, and inline sections
OtherCharts ==
    {"", "s", "s:c", " s\n: c :easy: 12 :v:0", "s:c:d:x:v:0", "s:c:d:9:v:01:2,3",
     "s:c:d:1:v:01234MKLF,x 9\n", "a:b:c:7:e:0{1,\n}1[2,]3]4", "a:b:c:7:e:{1]2}M[0}L",
     "a:b:c:7:e:1,,0\n,", "a:b:c:7:e:1{1"}

ChartArgs ==
    {[fn |-> "parse_to_chart", value |-> Span(ChartHeader \o g)] : g \in Grids}
        \cup {[fn |-> "parse_to_chart", value |-> Span(text)] : text \in OtherCharts}

InitChart ==
    /\ Standalone
    /\ pc = "chart"
    /\ arg \in ChartArgs
    /\ frame = Some(ChartStart(arg.value))

\* one iteration of `for (idx, c) in input.raw.chars().enumerate()`
ChartRead ==
    /\ pc = "chart" /\ frame.v.idx < Len(arg.value.raw)
    /\ frame' = Some(ChartStep(frame.v, arg.value.raw, arg.value.raw[frame.v.idx + 1]))
    /\ UNCHANGED <<input, pc, current_pos, state, line, col, start_pos, latest_name,
                   errors, latest_errors, map, todo, step, inserted, arg, ret>>

\* parse_to_chart after the loop: `return Some(chart)`
ChartReturn ==
    /\ pc = "chart" /\ frame.v.idx >= Len(arg.value.raw)
    /\ ret' = Some(ChartFinish(frame.v).chart)
    /\ errors' = errors \o frame.v.errors
    /\ pc' = "returned"
    /\ UNCHANGED <<input, current_pos, state, line, col, start_pos, latest_name,
                   latest_errors, map, todo, step, inserted, arg, frame>>

NextChart == ChartRead \/ ChartReturn

SpecChart == InitChart /\ [][NextChart]_vars

(***************************************************************************)
(* The decoders called on their own: parse_to_color                        *)
(***************************************************************************)

\* a color text has at most this many channels
MaxChannels == 4

\* channel texts: numbers in and out of [0,1], with blanks and a line break
\* around them, and texts that are no numbers
ChannelTexts == {"1", "0.5", "0", " .25", "2", "-1", "0.999\n", "x", ""}

ColorTexts == {Join(cs, "^") : cs \in SeqsUpTo(ChannelTexts, MaxChannels)}

\* the spans start after `#T:`
ColorArgs ==
    {[fn |-> "parse_to_color",
      value |-> UnparsedPropertyValue(Chars(text), 1, 3, Len(text))] :
        text \in ColorTexts}

InitColor ==
    /\ Standalone
    /\ pc = "call"
    /\ arg \in ColorArgs
    /\ frame = Idle

\* self.parse_to_color(value); frame keeps the spans of the channels
CallColor ==
    /\ pc = "call" /\ arg.fn = "parse_to_color"
    /\ \E r \in {parse_to_color(arg.value)} :
           /\ ret' = r.ret
           /\ errors' = errors \o r.errors
           /\ frame' = Some(r.spans)
    /\ pc' = "returned"
    /\ UNCHANGED <<input, current_pos, state, line, col, start_pos, latest_name,
                   latest_errors, map, todo, step, inserted, arg>>

NextColor == CallColor

SpecColor == InitColor /\ [][NextColor]_vars

(***************************************************************************)
(* parse_attacks called on its own, one iteration of its loop at a time;   *)
(* frame holds the locals of the call                                      *)
(***************************************************************************)

\* a value of #ATTACKS is made of at most this many runs of segments
MaxAttacks == 3

\* whole attacks, a lone start, an attack without modifiers, modifiers after
\* an end that is no number, and an unknown key
AttackRuns ==
    {"TIME=1:LEN=2:MODS=a", "time=1:end=4:mods=a", "time=3", "time=1:len=2",
     "end=y:mods=a", "foo=1"}

\* values with segments that have no `=`
KeylessAttackTexts == {"mods=a:x:y", "time=1:len=2:mods=a:b:c:d", "time=1:2:mods=a", "7"}

\* the last value has an end whose distance from the start is outside 64 bits
AttackTexts ==
    {Join(rs, ":") : rs \in SeqsUpTo(AttackRuns, MaxAttacks)}
        \cup {"time=-9223372036854775.808:end=1:mods=a"}
        \cup KeylessAttackTexts
        \cup {"time=1:foo=1:len=2:mods=a"}

AttackArgs == {[fn |-> "parse_attacks", value |-> Span(text)] : text \in AttackTexts}

InitAttacks ==
    /\ Standalone
    /\ pc = "call"
    /\ arg \in AttackArgs
    /\ frame = Idle

\* self.parse_attacks(value): the locals before the loop
CallAttacks ==
    /\ pc = "call" /\ arg.fn = "parse_attacks"
    /\ frame' = Some(AttackStart(arg.value))
    /\ pc' = "attacks"
    /\ UNCHANGED <<input, current_pos, state, line, col, start_pos, latest_name,
                   errors, latest_errors, map, todo, step, inserted, arg, ret>>

\* one iteration of `for c in value.raw.chars()`
AttackRead ==
    /\ pc = "attacks" /\ frame.v.current_pos < Len(arg.value.raw)
    /\ \E overflow_checks \in BOOLEAN :
           \E f \in {AttackStep(frame.v, arg.value.raw,
                                arg.value.raw[frame.v.current_pos + 1],
                                overflow_checks)} :
               /\ frame' = Some(f)
               /\ errors' = f.errors
               /\ pc' = IF f.panicked THEN "panicked" ELSE "attacks"
    /\ UNCHANGED <<input, current_pos, state, line, col, start_pos, latest_name,
                   latest_errors, map, todo, step, inserted, arg, ret>>

\* the segment after the last `:`, and `return list`
AttackReturn ==
    /\ pc = "attacks" /\ frame.v.current_pos >= Len(arg.value.raw)
    /\ \E overflow_checks \in BOOLEAN :
           \E f \in {AttackFinish(frame.v, arg.value.raw, overflow_checks)} :
               /\ frame' = Some(f)
               /\ errors' = f.errors
               /\ ret' = f.list
               /\ pc' = IF f.panicked THEN "panicked" ELSE "returned"
    /\ UNCHANGED <<input, current_pos, state, line, col, start_pos, latest_name,
                   latest_errors, map, todo, step, inserted, arg>>

NextAttacks == CallAttacks \/ AttackRead \/ AttackReturn

SpecAttacks == InitAttacks /\ [][NextAttacks]_vars

(***************************************************************************)
(* Properties of parse_from_string                                         *)
(***************************************************************************)

Finished == pc = "done"

\* the diagnostics of one kind in the list the caller reads
Diagnostics(code) == Cardinality(OfCode(errors, code))

\* the `;`-terminated properties read under a name, as positions in inserted
Occurrences(k) == {i \in DOMAIN inserted : inserted[i].name = k}

StoredNames == {inserted[i].name : i \in DOMAIN inserted}

\* the value of the last `;`-terminated property read under a name
LastValue(k) ==
    inserted[CHOOSE i \in Occurrences(k) : \A j \in Occurrences(k) : j <= i].value

\* the input ends inside the value of a property whose name is already stored
UnterminatedDuplicate ==
    IF state = "Value" /\ Str(latest_name) \in StoredNames THEN 1 ELSE 0

\* C1: for every input, parse_from_string runs to completion and returns
\* Ok(record) with the diagnostics list; no input makes it abort or panic.
C1_NeverPanics == pc # "panicked"

\* C2 as stated: with n >= 2 `;`-terminated properties under one name (after
\* lowercasing) the stored and decoded value is that of the last occurrence,
\* and exactly n-1 DuplicatePropertyName diagnostics are emitted.
C2_ExactlyNMinusOne ==
    Finished /\ (\E k \in StoredNames : Cardinality(Occurrences(k)) >= 2)
    => /\ \A k \in StoredNames : map[k] = LastValue(k)
       /\ Diagnostics("StepmaniaDuplicatePropertyName")
              = Len(inserted) - Cardinality(StoredNames)

\* C2 as amended: the last `;`-terminated occurrence of a name wins, in the
\* map and in the record, and the n occurrences give n-1 DuplicatePropertyName
\* diagnostics, plus one more when the input ends in an unterminated property
\* whose name is already stored.
C2_LastOccurrenceWins ==
    Finished
    => /\ DOMAIN map = StoredNames
       /\ \A k \in StoredNames : map[k] = LastValue(k)
       /\ "title" \in StoredNames
              => step.title = Some(Str(trim(LastValue("title").raw)))
       /\ Diagnostics("StepmaniaDuplicatePropertyName")
              = Len(inserted) - Cardinality(StoredNames) + UnterminatedDuplicate

\* three properties named title after lowercasing, the last one unterminated
C2_Witness ==
    /\ Finished
    /\ Cardinality(Occurrences("title")) = 2
    /\ UnterminatedDuplicate = 1
    /\ step.title = Some("b")
    /\ Diagnostics("StepmaniaDuplicatePropertyName") = 2

\* C3: an input that ends in state Value gives exactly one ExpectedValueEnd
\* diagnostic in the returned list, and no map entry for that property.
C3_UnterminatedValueReported ==
    Finished /\ state = "Value"
    => /\ Diagnostics("StepmaniaExpectedValueEnd") = 1
       /\ DOMAIN map = StoredNames

\* C4: at the end of every parse the open-diagnostic map is empty, each
\* diagnostic opened during scanning having been moved to the returned list.
C4_NoOpenDiagnostics == Finished => DOMAIN latest_errors = {}

\* the record field of each simple string property
C5_Field ==
    "VERSION" :> "version" @@ "TITLE" :> "title"
    @@ "TITLETRANSLIT" :> "title_translit" @@ "SUBTITLE" :> "subtitle"
    @@ "SUBTITLETRANSLIT" :> "subtitle_translit" @@ "ARTIST" :> "artist"
    @@ "ARTISTTRANSLIT" :> "artist_translit" @@ "GENRE" :> "genre"
    @@ "CREDIT" :> "credit" @@ "BANNER" :> "banner"
    @@ "BACKGROUND" :> "background" @@ "LYRICSPATH" :> "lyrics_path"
    @@ "CDTITLE" :> "cd_title" @@ "MUSIC" :> "music" @@ "ORIGIN" :> "origin"
    @@ "JACKET" :> "jacket" @@ "CDIMAGE" :> "cd_image"
    @@ "DISKIMAGE" :> "disk_image" @@ "PREVIEW" :> "preview"

\* C5: `#NAME:VALUE;` for a simple string property NAME sets the property's
\* record field to the trimmed VALUE and produces no diagnostic.
C5_SimpleStringDecoded ==
    \A name \in SimpleStringNames, value \in SimpleStringValues :
        Finished /\ input = "#" \o name \o ":" \o value \o ";"
        => /\ step[C5_Field[name]] = Some(Str(trim(Chars(value))))
           /\ errors = <<>>

(***************************************************************************)
(* Properties of the decoders                                              *)
(***************************************************************************)

Returned(fn) == pc = "returned" /\ arg.fn = fn

\* the pieces of s between the occurrences of c
RECURSIVE SplitOn(_, _)
SplitOn(s, c) ==
    IF \A i \in 1..Len(s) : s[i] # c THEN <<s>>
    ELSE LET i == CHOOSE j \in 1..Len(s) : s[j] = c /\ \A k \in 1..(j - 1) : s[k] # c
         IN <<SubSeq(s, 1, i - 1)>> \o SplitOn(SubSeq(s, i + 1, Len(s)), c)

\* the number a digit string denotes
RECURSIVE DigitsValue(_)
DigitsValue(ds) ==
    IF ds = <<>> THEN 0
    ELSE DigitsValue(SubSeq(ds, 1, Len(ds) - 1)) * 10 + DigitVal(ds[Len(ds)])

RECURSIVE Pow10(_)
Pow10(n) == IF n = 0 THEN 1 ELSE 10 * Pow10(n - 1)

\* sign, integer digits and fraction digits of a text, blanks around it aside
DecimalParts(text) ==
    LET t == trim(text)
        signed == t # <<>> /\ t[1] \in {"+", "-"}
        parts == SplitOn(IF signed THEN Tail(t) ELSE t, ".")
    IN [neg |-> signed /\ t[1] = "-",
        int |-> parts[1],
        frac |-> IF Len(parts) > 1 THEN parts[2] ELSE <<>>,
        dots |-> Len(parts) - 1]

\* optional sign, digits, optional `.` and fraction digits; the integer digits
\* are few enough for the scaled value to be computed
IsDecimalText(text) ==
    LET d == DecimalParts(text)
    IN /\ d.dots <= 1
       /\ d.int # <<>> /\ Len(d.int) <= 5
       /\ \A i \in 1..Len(d.int) : IsDigit(d.int[i])
       /\ \A i \in 1..Len(d.frac) : IsDigit(d.frac[i])

\* the value scaled by 10^p: the first p fraction digits kept, missing ones 0
Scaled(text, p) ==
    LET d == DecimalParts(text)
        n == DigitsValue(d.int) * Pow10(p)
                 + DigitsValue(SubSeq(d.frac \o Zeros(p), 1, p))
    IN IF d.neg THEN 0 - n ELSE n

C6_Examples == {<<"1.333", 1333>>, <<"83", 83000>>, <<"66.6668423", 66666>>}

\* C6: parse_to_number(text, p) on a decimal text returns the value scaled by
\* 10^p, fraction digits beyond p truncated and missing ones zero-padded, and
\* emits no diagnostic; with p = 3, "1.333" gives 1333, "83" gives 83000 and
\* "66.6668423" gives 66666.
C6_ScaledByPrecision ==
    Returned("parse_to_number")
    => /\ IsDecimalText(arg.value.raw)
              => /\ ret = Some(I64(Scaled(arg.value.raw, arg.precision)))
                 /\ errors = <<>>
       /\ \A e \in C6_Examples :
              Str(arg.value.raw) = e[1] /\ arg.precision = 3
              => ret = Some(I64(e[2])) /\ errors = <<>>

\* a fraction longer than the precision has been cut, not rounded
C6_Witness ==
    /\ Returned("parse_to_number")
    /\ Str(arg.value.raw) = "66.6668423" /\ arg.precision = 3
    /\ ret = Some(I64(66666))

\* the range of a text: split on the first `-`, both halves decoded
C7_Halves(value, p) ==
    LET parts == SplitOn(value.raw, "-")
        rest == SubSeq(value.raw, Len(parts[1]) + 2, Len(value.raw))
        Half(raw) == parse_to_number(
                         UnparsedPropertyValue(raw, value.line, value.column, Len(raw)), p)
    IN [dash |-> Len(parts) > 1,
        min |-> IF Len(parts) > 1 THEN Half(parts[1]) ELSE parse_to_number(value, p),
        max |-> IF Len(parts) > 1 THEN Half(rest) ELSE parse_to_number(value, p)]

\* C7: parse_to_number_range splits on the first `-`; with no `-` the text is
\* one number n and the range is {min: n, max: n}; with a `-` both halves are
\* decoded with the same precision and the range is produced only if both
\* decode; "66.6668423-240" (also with a blank before the `-`) with precision
\* 3 gives {min: 66666, max: 240000} and no diagnostics.
C7_RangeSplitOnFirstDash ==
    Returned("parse_to_number_range")
    => /\ \E h \in {C7_Halves(arg.value, arg.precision)} :
              /\ ret = IF h.min.ret.some /\ h.max.ret.some
                       THEN Some([min |-> h.min.ret.v, max |-> h.max.ret.v])
                       ELSE None
              /\ ~h.dash => h.min = h.max
       /\ Str(arg.value.raw) \in {"66.6668423-240", "66.6668423 -240"}
              /\ arg.precision = 3
              => /\ ret = Some([min |-> I64(66666), max |-> I64(240000)])
                 /\ errors = <<>>

C7_Witness ==
    /\ Returned("parse_to_number_range")
    /\ Str(arg.value.raw) = "66.6668423 -240" /\ arg.precision = 3
    /\ ret = Some([min |-> I64(66666), max |-> I64(240000)])

\* the groups of a grouped text and the fields of each, as written
TextGroups(raw) ==
    LET pieces == SplitOn(raw, ",")
    IN [i \in 1..Len(pieces) |->
            IF pieces[i] = <<>> THEN <<>> ELSE SplitOn(pieces[i], "=")]

\* every group is `a=b` with both fields written
IsPairList(raw) ==
    \A i \in DOMAIN TextGroups(raw) :
        /\ Len(TextGroups(raw)[i]) = 2
        /\ TextGroups(raw)[i][1] # <<>>
        /\ TextGroups(raw)[i][2] # <<>>

\* C8: k groups `a=b` separated by `,`, blanks and line breaks around the
\* fields and no `,` after the last group, decode with field-splitting into
\* k two-field groups in source order whose trimmed values are the (a, b),
\* and as INSTRUMENTTRACKS into k tracks in that order with no diagnostic.
C8_PairGroupsDecoded ==
    pc = "returned" /\ IsPairList(arg.value.raw)
    => \E pairs \in {TextGroups(arg.value.raw)} :
          /\ arg.fn = "parse_to_value_entries" /\ arg.groups
                 => /\ Len(ret) = Len(pairs)
                    /\ \A i \in DOMAIN pairs :
                           /\ Len(ret[i]) = 2
                           /\ trim(ret[i][1].raw) = trim(pairs[i][1])
                           /\ trim(ret[i][2].raw) = trim(pairs[i][2])
          /\ arg.fn = "parse_value_group" /\ arg.mapper = "parse_to_instrument_track"
                 => /\ ret = [i \in DOMAIN pairs |->
                                 [instrument |-> Str(trim(pairs[i][1])),
                                  file |-> Str(trim(pairs[i][2]))]]
                    /\ errors = <<>>

\* the instrument tracks of the test of the source
C8_Witness ==
    /\ Returned("parse_value_group")
    /\ arg.mapper = "parse_to_instrument_track"
    /\ Str(arg.value.raw) = "g=a.ogg,\n d= b.mp3, v =c.mp3"
    /\ ret = <<[instrument |-> "g", file |-> "a.ogg"],
               [instrument |-> "d", file |-> "b.mp3"],
               [instrument |-> "v", file |-> "c.mp3"]>>
    /\ errors = <<>>

\* every field of every group is written out
C9_FieldsWritten(raw) ==
    \A i \in DOMAIN TextGroups(raw) :
        \A j \in DOMAIN TextGroups(raw)[i] : TextGroups(raw)[i][j] # <<>>

\* C9: a group with fewer than min fields yields no record and no diagnostic;
\* a group with at least min and fewer than max fields gives exactly one
\* InvalidValueCount diagnostic and still a record whose missing trailing
\* fields keep their defaults; a group with max fields gives no
\* InvalidValueCount diagnostic.
C9_ArityChecks ==
    Returned("parse_value_group") /\ C9_FieldsWritten(arg.value.raw)
    => \E gs \in {TextGroups(arg.value.raw)} :
          LET partial == {i \in DOMAIN gs : arg.min <= Len(gs[i]) /\ Len(gs[i]) < arg.max}
              enough == {i \in DOMAIN gs : arg.min <= Len(gs[i])}
          IN /\ Diagnostics("StepmaniaInvalidValueCount") = Cardinality(partial)
             /\ Len(ret) <= Cardinality(enough)
             /\ enough = {} => ret = <<>> /\ errors = <<>>
             /\ arg.mapper = "parse_to_visual_change"
                    => /\ Len(ret) = Cardinality(enough)
                       /\ enough = DOMAIN gs
                              => \A i \in DOMAIN gs :
                                    /\ Len(gs[i]) < 2 => ret[i].path = ""
                                    /\ Len(gs[i]) < 3 => ret[i].play_rate = I64(0)
                                    /\ Len(gs[i]) < 7 => ret[i].effect = ""
                                    /\ Len(gs[i]) < 10 => ret[i].color1 = DefaultColor
                                    /\ Len(gs[i]) < 11 => ret[i].color2 = DefaultColor

\* the note grid of a NOTES value: the text after its fifth `:`
GridOf(raw) ==
    LET colons == {i \in 1..Len(raw) : raw[i] = CHAR_NOTE_PROP_SEPARATOR}
        fifth == {i \in colons : Cardinality({j \in colons : j < i}) = 4}
    IN IF fifth = {} THEN <<>>
       ELSE SubSeq(raw, (CHOOSE i \in fifth : TRUE) + 1, Len(raw))

\* the cells written in a row of the grid
Cells(row) == Cardinality({i \in 1..Len(row) : row[i] \in NoteChars})

\* the cell count of the first row of the grid that has cells, 0 without one
FirstRowCells(grid) ==
    LET rows == SplitOn(grid, CHAR_LINE_BREAK)
        filled == {i \in DOMAIN rows : Cells(rows[i]) > 0}
    IN IF filled = {} THEN 0
       ELSE Cells(rows[CHOOSE i \in filled : \A j \in filled : i <= j])

\* C10: column_count becomes the cell count of the first non-empty row of the
\* note grid, and once it has been fixed no later character changes it.
C10_ColumnCountOfFirstRow ==
    [][/\ pc' = "returned"
              => ret'.v.data.column_count = FirstRowCells(GridOf(arg.value.raw))
       /\ pc' = "chart" /\ frame.v.chart.data.column_count # 0
              => frame'.v.chart.data.column_count = frame.v.chart.data.column_count
      ]_vars

(***************************************************************************)
(* Properties of parse_to_color                                            *)
(***************************************************************************)

\* a decimal text with at most three fraction digits
IsShortDecimal(text) ==
    IsDecimalText(text) /\ Len(DecimalParts(text).frac) <= 3

\* the number of a channel text clamped to [0,1], scaled by 255 and truncated
ChannelValue(text) ==
    LET n == Scaled(text, 3)
    IN IF n <= 0 THEN 0 ELSE IF n >= 1000 THEN 255 ELSE (255 * n) \div 1000

PositionFrom(text, k, l, c) ==
    LET breaks == {i \in 1..k : text[i] = CHAR_LINE_BREAK}
    IN [line |-> l + Cardinality(breaks),
        column |-> IF breaks = {} THEN c + k
                   ELSE k - (CHOOSE i \in breaks : \A j \in breaks : j <= i)]

\* the position of the character at offset k of the input
PositionOf(k) == PositionFrom(Chars(input), k, 1, 0)

\* the span the lexer stored last; its text starts at start_pos until the next
\* `#` is read
LastStored == inserted[Len(inserted)].value

\* C12: the line and column of a raw value span of the lexer are the position of
\* the first character of the value in the input.
C12_SpanAtFirstCharacter ==
    state = "Clean" /\ inserted # <<>>
    => /\ LastStored.line = PositionOf(start_pos).line
       /\ LastStored.column = PositionOf(start_pos).column

\* C13: the length of every span the color splitter hands to the channel
\* decoder, the last channel included, is the number of characters of its text.
C13_ColorSpanLength ==
    Returned("parse_to_color")
    => \A i \in 1..Len(frame.v) : frame.v[i].len = Len(frame.v[i].raw)

(***************************************************************************)
(* Properties of the dispatch                                              *)
(***************************************************************************)

\* the names of the map in the order in which they were first stored
RECURSIVE FirstStored(_, _)
FirstStored(i, seen) ==
    IF i > Len(inserted) THEN <<>>
    ELSE IF inserted[i].name \in seen THEN FirstStored(i + 1, seen)
    ELSE <<inserted[i].name>> \o FirstStored(i + 1, seen \cup {inserted[i].name})

\* the record and the diagnostics of a dispatch that takes the names in the
\* given order
RECURSIVE DispatchedInOrder(_, _, _)
DispatchedInOrder(names, st, errs) ==
    LET Then(r) == DispatchedInOrder(Tail(names), r.step, errs \o r.errors)
    IN IF names = <<>> THEN [step |-> st, errors |-> errs]
       ELSE Then(Assign(st, Head(names), map[Head(names)], FALSE))

\* C14: the record and the diagnostics of a finished parse are those of the
\* dispatch in the order of the input, whatever order the map was iterated in.
C14_IndependentOfIterationOrder ==
    Finished
    => \A r \in {DispatchedInOrder(FirstStored(1, {}), DefaultFile, <<>>)} :
           /\ ret = Some(r.step)
           /\ Len(errors) >= Len(r.errors)
           /\ SubSeq(errors, Len(errors) - Len(r.errors) + 1, Len(errors)) = r.errors

(***************************************************************************)
(* Properties of repeated calls                                            *)
(***************************************************************************)

\* the call before was the first on the parser and had the same input
SameAsFirstCall == frame.some /\ frame.v.fresh /\ frame.v.input = input

\* C15: a call of parse_from_string on a parser that was used before completes,
\* leaves the position counters where a fresh parser leaves them, and returns
\* the record and the diagnostics a fresh parser returns for the same input.
C15_ReparseLikeFresh ==
    /\ pc # "panicked"
    /\ Finished
           => /\ line = PositionOf(Len(input)).line
              /\ col = PositionOf(Len(input)).column
    /\ Finished /\ SameAsFirstCall
           => /\ ret = frame.v.ret
              /\ errors = frame.v.errors

(***************************************************************************)
(* Properties of the output record                                         *)
(***************************************************************************)

\* the optional fields of the record, under the lowercased name of their property
OptionalField ==
    [n \in {Str(to_lowercase(Chars(name))) : name \in DOMAIN C5_Field} |->
        C5_Field[CHOOSE name \in DOMAIN C5_Field : Str(to_lowercase(Chars(name))) = n]]
    @@ "samplestart" :> "sample_start" @@ "samplelength" :> "sample_length"
    @@ "offset" :> "offset" @@ "lastsecondhint" :> "last_second_hint"
    @@ "displaybpm" :> "display_bpm" @@ "notes" :> "notes"

\* C16: an optional field of the returned record is absent exactly when no
\* property of its name was read; `#TITLE:;` gives title = Some("").
C16_AbsentIffNotPresent ==
    Finished
    => /\ \A n \in DOMAIN OptionalField :
              ret.v[OptionalField[n]].some <=> n \in StoredNames
       /\ input = "\n#TITLE:;\n" => ret.v.title = Some("")

(***************************************************************************)
(* Properties of the lists of the record                                   *)
(***************************************************************************)

\* the groups whose first field, the beat, decodes
WithBeat(groups) ==
    {i \in 1..Len(groups) :
        /\ Len(groups[i]) >= 1
        /\ parse_to_number(groups[i][1], PRECISION_TIME).ret.some}

\* C17: a list of timed records holds no more records than there are groups
\* whose beat decoded: a group whose beat fails to decode contributes no
\* record, for visual changes as for every other family.
C17_NoRecordWithoutBeat ==
    Returned("parse_value_group") /\ arg.mapper # "parse_to_instrument_track"
    => \A groups \in {parse_to_value_entries(arg.value, TRUE)} :
           Len(ret) <= Cardinality(WithBeat(groups))

(***************************************************************************)
(* Properties of one iteration of the dispatch                             *)
(***************************************************************************)

\* the match arms of parse_from_string: the field each name is mapped to
DispatchField ==
    [n \in DOMAIN OptionalField \ {"artisttranslit"} |-> OptionalField[n]]
    @@ "artisttranslist" :> "artist_translit" @@ "selectable" :> "selectable"
    @@ "bgchanges" :> "background_changes" @@ "bgchanges2" :> "background_changes2"
    @@ "bgchanges3" :> "background_changes3" @@ "fgchanges" :> "foreground_changes"
    @@ "animations" :> "animations" @@ "keysounds" :> "keysounds"
    @@ "instrumenttracks" :> "instrument_tracks" @@ "freezes" :> "stops"
    @@ "stops" :> "stops" @@ "delays" :> "delays" @@ "fakes" :> "fakes"
    @@ "bpms" :> "bpms" @@ "timesignatures" :> "time_signatures"
    @@ "tickcounts" :> "tick_counts" @@ "attacks" :> "attacks"
    @@ "combos" :> "combos" @@ "speeds" :> "speeds" @@ "scrolls" :> "scrolls"
    @@ "labels" :> "labels"

\* the fields of the record that a step changes
Changed == {f \in DOMAIN step : step'[f] # step[f]}

C19_TrackerFollowsInput ==
    /\ line = PositionOf(current_pos).line
    /\ col = PositionOf(current_pos).column

\* a line break has been consumed inside a value, and a character after it
C19_Witness ==
    /\ pc = "lex" /\ state = "Value"
    /\ line = 2 /\ col = 1
    /\ SubSeq(input, current_pos - 1, current_pos - 1) = CHAR_LINE_BREAK

\* the lexer state after a character read in state s
StateAfter(s, c) ==
    IF s = "Clean" THEN (IF c = CHAR_PROPERTY_START THEN "Name" ELSE "Clean")
    ELSE IF s = "Name" THEN (IF c = CHAR_VALUE_START THEN "Value" ELSE "Name")
    ELSE IF c = CHAR_VALUE_END THEN "Clean" ELSE "Value"

\* the character at offset k of the input
CharAt(k) == SubSeq(input, k + 1, k + 1)

\* the lexer states in which the characters at offsets 0..k are read
RECURSIVE LexStates(_)
LexStates(k) ==
    LET Extend(sts) == Append(sts, StateAfter(sts[k], CharAt(k - 1)))
    IN IF k = 0 THEN <<"Clean">> ELSE Extend(LexStates(k - 1))

\* the offending characters before the `#` at offset b: not blank, and nothing
\* but state Clean between them and the `#`
Offending(sts, b) ==
    LET others == {j \in 0..b : sts[j + 1] # "Clean"}
        After(start) == {a \in start..(b - 1) : ~is_whitespace(CharAt(a))}
    IN After(IF others = {} THEN 0
             ELSE 1 + CHOOSE j \in others : \A o \in others : o <= j)

\* the offsets among the first n of a `#` read in state Clean after offending
\* characters
Closers(sts, n) ==
    {b \in 0..(n - 1) :
        /\ sts[b + 1] = "Clean" /\ CharAt(b) = CHAR_PROPERTY_START
        /\ Offending(sts, b) # {}}

\* one diagnostic for each of them, in their order: at the first offending
\* character, up to the `#`
StrayBefore(sts, n) ==
    LET Run(first, b) == ParseError("StepmaniaExpectedPropertyStart",
                                    PositionOf(first).line,
                                    PositionOf(first).column, b - first)
        First(offending, b) ==
            Run(CHOOSE a \in offending : \A o \in offending : a <= o, b)
        Runs(closers) ==
            [i \in 1..Cardinality(closers) |->
                LET b == CHOOSE c \in closers :
                             Cardinality({d \in closers : d < c}) = i - 1
                IN First(Offending(sts, b), b)]
    IN Runs(Closers(sts, n))

\* the diagnostics for stray content are those of the runs read so far
StrayReported ==
    LET IsStray(e) == e.code = "StepmaniaExpectedPropertyStart"
    IN SelectSeq(errors, IsStray) = StrayBefore(LexStates(current_pos), current_pos)

\* C20: a diagnostic kind that is open keeps its recorded start while it stays
\* open; when it is closed exactly one diagnostic is appended, with the recorded
\* position and length = close offset - open offset; so stray content before a
\* `#` gives one ExpectedPropertyStart diagnostic at the first offending
\* character that covers up to the `#`.
C20_Coalesced ==
    [][/\ \A code \in DOMAIN latest_errors :
              /\ code \in DOMAIN latest_errors'
                     => latest_errors'[code] = latest_errors[code]
              /\ code \notin DOMAIN latest_errors'
                     => errors' = Append(errors,
                                         [latest_errors[code] EXCEPT
                                              !.len = current_pos - @])
       /\ StrayReported]_vars

\* two offending characters and the line breaks after them were reported as one
C20_Witness ==
    /\ Len(input) >= 5 /\ SubSeq(input, 1, 5) = "x\nx\n#"
    /\ current_pos >= 5
    /\ errors # <<>>
    /\ errors[1] = ParseError("StepmaniaExpectedPropertyStart", 1, 0, 4)
    /\ Diagnostics("StepmaniaExpectedPropertyStart") = 1

(***************************************************************************)
(* Properties of the lexer states Name and Value                           *)
(***************************************************************************)

\* the characters of the input at the offsets a..(b - 1)
Between(a, b) == [i \in 1..(b - a) |-> CharAt(a + i - 1)]

\* the offset after the `#` that opened the name whose `:` is at offset colon
NameStart(sts, colon) ==
    LET opened == {h \in 0..(colon - 1) :
                      sts[h + 1] = "Clean" /\ CharAt(h) = CHAR_PROPERTY_START}
    IN 1 + CHOOSE h \in opened : \A o \in opened : o <= h

\* the name written between the offsets a and b, in lowercase
LowerName(a, b) == Str([i \in 1..(b - a) |-> to_lowercase_char(CharAt(a + i - 1))])

\* C21: in state Value only a `;` ends the value: any other character, a `:`,
\* a `#` or a line break included, leaves the lexer in Value and stores
\* nothing; the `;` stores the characters between the name's `:` and itself
\* under the lowercased name and returns the lexer to Clean.
C21_ValueEndsAtSemicolon ==
    [][pc = "lex" /\ state = "Value" /\ current_pos' # current_pos
       => /\ CharAt(current_pos) # CHAR_VALUE_END
                 => state' = "Value" /\ inserted' = inserted /\ map' = map
          /\ CharAt(current_pos) = CHAR_VALUE_END
                 => /\ state' = "Clean"
                    /\ CharAt(start_pos - 1) = CHAR_VALUE_START
                    /\ \A k \in start_pos..(current_pos - 1) :
                           CharAt(k) # CHAR_VALUE_END
                    /\ Len(inserted') = Len(inserted) + 1
                    /\ \A sts \in {LexStates(current_pos)} :
                           /\ inserted'[Len(inserted')].name
                                  = LowerName(NameStart(sts, start_pos - 1),
                                              start_pos - 1)
                           /\ inserted'[Len(inserted')].value.raw
                                  = Between(start_pos, current_pos)
                           /\ map'[inserted'[Len(inserted')].name]
                                  = inserted'[Len(inserted')].value]_vars

\* a value with a `#` and a `:` in it has been stored whole
C21_Witness ==
    /\ state = "Clean"
    /\ \E i \in DOMAIN inserted :
           /\ inserted[i].name = "title"
           /\ Str(inserted[i].value.raw) = "c#TITLE:a"

\* C22: when the `:` that ends a name already stored is read, one
\* DuplicatePropertyName diagnostic is appended at once, with the line and
\* column of the name's first character and the name's length.
C22_DuplicateAtName ==
    [][/\ pc = "lex" /\ state = "Name" /\ current_pos' # current_pos
       /\ CharAt(current_pos) = CHAR_VALUE_START
       /\ LowerName(start_pos, current_pos) \in DOMAIN map
       => errors' = Append(errors,
                           ParseError("StepmaniaDuplicatePropertyName",
                                      PositionOf(start_pos).line,
                                      PositionOf(start_pos).column,
                                      current_pos - start_pos))]_vars

(***************************************************************************)
(* Properties of the group splitter and the mappers                        *)
(***************************************************************************)

\* the fields of a group as written: split on `=` with field-splitting, the
\* whole group without
FieldsOf(piece, groups) ==
    IF groups THEN SplitOn(piece, CHAR_OBJ_VAL_SEPARATOR) ELSE <<piece>>

\* the texts of the fields of a group of spans
Raws(group) == [j \in 1..Len(group) |-> group[j].raw]

\* C23: a last group that is written out (no empty field) and has no `,` after
\* it is returned as the last group, with and without field-splitting.
C23_TrailingGroupIncluded ==
    Returned("parse_to_value_entries")
    => \A pieces \in {SplitOn(arg.value.raw, CHAR_OBJ_SEPARATOR)} :
           \A fields \in {FieldsOf(pieces[Len(pieces)], arg.groups)} :
               (\A j \in 1..Len(fields) : fields[j] # <<>>)
               => /\ Len(ret) = Len(pieces)
                  /\ Raws(ret[Len(ret)]) = fields

\* the fields a fixed-layout mapper consumes, in the order of the group
Field(name, kind) == [name |-> name, kind |-> kind]

Layouts ==
    "parse_to_timed_duration" :> <<Field("beat", "time"), Field("duration", "time")>>
    @@ "parse_to_timed_bpm" :> <<Field("beat", "time"), Field("bpm", "time")>>
    @@ "parse_to_timed_time_signature" :>
           <<Field("beat", "time"), Field("numerator", "u8"),
             Field("denominator", "u8")>>
    @@ "parse_to_timed_number" :> <<Field("beat", "time"), Field("value", "i32")>>
    @@ "parse_to_timed_combo_change" :>
           <<Field("beat", "time"), Field("hit", "u32"), Field("miss", "u32")>>
    @@ "parse_to_timed_speed_change" :>
           <<Field("beat", "time"), Field("ratio", "f32"),
             Field("duration", "time"), Field("in_seconds", "flag")>>
    @@ "parse_to_timed_scroll_speed_change" :>
           <<Field("beat", "time"), Field("factor", "f32")>>
    @@ "parse_to_timed_label" :> <<Field("beat", "time"), Field("label", "string")>>

\* the flag of a speed change: a number, true when it is 1
Flag(n) == IF n.some THEN Some(n.v = I64(1)) ELSE None

\* one field decoded on its own
Decoded(kind, span) ==
    CASE kind = "time" -> parse_to_number(span, PRECISION_TIME).ret
      [] kind = "u8" -> parse_u8(trim(span.raw))
      [] kind = "i32" -> parse_i32(trim(span.raw))
      [] kind = "u32" -> parse_u32(trim(span.raw))
      [] kind = "f32" -> parse_f32(trim(span.raw))
      [] kind = "flag" -> Flag(parse_u32(trim(span.raw)))
      [] kind = "string" -> Some(Str(trim(span.raw)))

AllDecoded(layout, group) ==
    \A i \in 1..Len(layout) : Decoded(layout[i].kind, group[i]).some

\* the record of the decoded fields, each under the name of its position
RecordOf(layout, group) ==
    [n \in {layout[i].name : i \in 1..Len(layout)} |->
        Decoded(layout[CHOOSE i \in 1..Len(layout) : layout[i].name = n].kind,
                group[CHOOSE i \in 1..Len(layout) : layout[i].name = n]).v]

\* the groups with all the fields of the layout, all of them decodable
Complete(layout, groups) ==
    SelectSeq(groups, LAMBDA g : Len(g) >= Len(layout) /\ AllDecoded(layout, g))

RecordsOf(layout, groups) ==
    [i \in 1..Len(groups) |-> RecordOf(layout, groups[i])]

\* C24: the list a fixed-layout mapper gives is, in the order of the groups,
\* one record for each group whose consumed fields all decode, holding the
\* decoded values under the names of their positions; any other group gives
\* no record.
C24_RecordIffAllDecoded ==
    Returned("parse_value_group") /\ arg.mapper \in DOMAIN Layouts
    => ret = RecordsOf(Layouts[arg.mapper],
                       Complete(Layouts[arg.mapper],
                                parse_to_value_entries(arg.value, TRUE)))

\* two time signatures: the first is stored, the second has a numerator that
\* is no uint8 and is dropped
C24_Witness ==
    /\ Returned("parse_value_group")
    /\ arg.mapper = "parse_to_timed_time_signature"
    /\ arg.value.raw = Chars("1=4=8,1=300=4")
    /\ Len(ret) = 1
    /\ ret[1].numerator = I64(4) /\ ret[1].denominator = I64(8)

\* the channels of a color text, and each decoded on its own
Channels(raw) == IF raw = <<>> THEN <<>> ELSE SplitOn(raw, CHAR_COLOR_SEPARATOR)

ChannelOf(text) ==
    parse_to_color_channel(UnparsedPropertyValue(text, 1, 0, Len(text))).ret

ChannelAt(cs, i, default) ==
    IF i <= Len(cs) /\ ChannelOf(cs[i]).some THEN ChannelOf(cs[i]).v ELSE default

\* the color of the channels by position, a missing or undecodable channel at
\* its default
ColorOf(cs) ==
    [red |-> ChannelAt(cs, 1, 0), green |-> ChannelAt(cs, 2, 0),
     blue |-> ChannelAt(cs, 3, 0), alpha |-> ChannelAt(cs, 4, 255)]

FailedChannels(cs) == {i \in 1..Len(cs) : ~ChannelOf(cs[i]).some}

\* field k of a group, when the group has it
Has(g, k) == Len(g) >= k

RateOf(g) == parse_f32(trim(g[3].raw))

\* the background change of a group: each field that is present decoded on its
\* own, the others and the undecodable ones at their fallback
VisualOf(g) ==
    [beat |-> IF Decoded("time", g[1]).some THEN Decoded("time", g[1]).v ELSE I64(0),
     path |-> IF Has(g, 2) THEN Str(g[2].raw) ELSE "",
     play_rate |-> IF Has(g, 3) /\ RateOf(g).some THEN F32AsI64(RateOf(g).v)
                   ELSE I64(0),
     crossfade |-> Has(g, 4) /\ g[4].raw = <<"1">>,
     stretch_rewind |-> Has(g, 5) /\ g[5].raw = <<"1">>,
     stretch_no_loop |-> Has(g, 6) /\ g[6].raw = <<"1">>,
     effect |-> IF Has(g, 7) THEN Str(g[7].raw) ELSE "",
     file2 |-> IF Has(g, 8) THEN Str(g[8].raw) ELSE "",
     transition |-> IF Has(g, 9) THEN Str(g[9].raw) ELSE "",
     color1 |-> IF Has(g, 10) THEN ColorOf(Channels(g[10].raw)) ELSE DefaultColor,
     color2 |-> IF Has(g, 11) THEN ColorOf(Channels(g[11].raw)) ELSE DefaultColor]

CodesOf(errs) == [i \in 1..Len(errs) |-> errs[i].code]

IfThen(cond, code) == IF cond THEN <<code>> ELSE <<>>

BoolCodes(g, k) ==
    IfThen(Has(g, k) /\ g[k].raw \notin {<<"0">>, <<"1">>}, "StepmaniaInvalidBoolean")

ColorCodes(g, k) ==
    IF Has(g, k)
    THEN [i \in 1..Cardinality(FailedChannels(Channels(g[k].raw))) |->
             "StepmaniaInvalidColorValue"]
    ELSE <<>>

\* the diagnostics of a group, in the order of its fields
VisualCodes(g) ==
    IfThen(Len(g) < 11, "StepmaniaInvalidValueCount")
    \o CodesOf(parse_to_number(g[1], PRECISION_TIME).errors)
    \o IfThen(Has(g, 3) /\ ~RateOf(g).some, "StepmaniaInvalidNumber")
    \o BoolCodes(g, 4) \o BoolCodes(g, 5) \o BoolCodes(g, 6)
    \o ColorCodes(g, 10) \o ColorCodes(g, 11)

RECURSIVE AllVisualCodes(_)
AllVisualCodes(groups) ==
    IF groups = <<>> THEN <<>>
    ELSE VisualCodes(Head(groups)) \o AllVisualCodes(Tail(groups))

\* C25: the background change of a group holds each present field decoded on
\* its own, left to right, absent fields at their defaults; an optional field
\* that cannot be decoded (the rate, a boolean, a color channel) is at its
\* fallback and has its diagnostic, in the order of the fields.
C25_PresentFieldsLeftToRight ==
    Returned("parse_value_group") /\ arg.mapper = "parse_to_visual_change"
    => \A groups \in {SelectSeq(parse_to_value_entries(arg.value, TRUE),
                                LAMBDA g : Has(g, 1))} :
           /\ ret = [i \in 1..Len(groups) |-> VisualOf(groups[i])]
           /\ CodesOf(errors) = AllVisualCodes(groups)

\* the groups with all the fields of the layout of which one is not decodable
Dropped(layout, groups) ==
    {i \in 1..Len(groups) :
        Len(groups[i]) >= Len(layout) /\ ~AllDecoded(layout, groups[i])}

\* C26: each group that has all its fields and gives no record because a field
\* cannot be decoded has appended a diagnostic of its own, so there are at
\* least as many diagnostics as such groups.
C26_DroppedRecordHasDiagnostic ==
    Returned("parse_value_group") /\ arg.mapper \in DOMAIN Layouts
    => Len(errors) >= Cardinality(Dropped(Layouts[arg.mapper],
                                          parse_to_value_entries(arg.value, TRUE)))

(***************************************************************************)
(* Properties of the failure of parse_to_number                            *)
(***************************************************************************)

\* a text that is a signed integer of 64 bits: an optional sign, then digits
\* only, at least one
IsSignedInteger(s) ==
    LET signed == s # <<>> /\ s[1] \in {"+", "-"}
        body == IF signed THEN Tail(s) ELSE s
    IN /\ body # <<>>
       /\ \A i \in 1..Len(body) : IsDigit(body[i])
       /\ InRange(IntVal(signed /\ s[1] = "-",
                         StripZeros([i \in 1..Len(body) |-> DigitVal(body[i])])),
                  I64_MIN, I64_MAX)

\* the padded and truncated digit string of a span
DigitString(value, precision) ==
    trim(NumberDigits(trim(value.raw), find(trim(value.raw), "."), precision))

\* C27: when the padded and truncated digit string is no signed integer,
\* parse_to_number returns no value and appends exactly one InvalidNumber with
\* the line, column and length of the span it was given; otherwise it returns
\* a value and appends nothing.
C27_InvalidNumberAtSpan ==
    Returned("parse_to_number")
    => IF IsSignedInteger(DigitString(arg.value, arg.precision))
       THEN ret.some /\ errors = <<>>
       ELSE /\ ret = None
            /\ errors = <<ParseError("StepmaniaInvalidNumber", arg.value.line,
                                     arg.value.column, arg.value.len)>>

\* a text with two decimal points, on a second line and with a blank in front,
\* has been refused
C27_Witness ==
    /\ Returned("parse_to_number")
    /\ arg.value = UnparsedPropertyValue(Chars(" 1.2.3"), 2, 5, 6)
    /\ ret = None
    /\ errors = <<ParseError("StepmaniaInvalidNumber", 2, 5, 6)>>

(***************************************************************************)
(* Properties of the channels of parse_to_color                            *)
(***************************************************************************)

\* C28: parse_to_color gives the color of the `^`-separated channels by
\* position, the only channel of a text without `^` included: a channel that is
\* missing or cannot be decoded is at its default, each channel that cannot be
\* decoded has one InvalidColorValue, and channels after the fourth change
\* nothing.
C28_ChannelsByPosition ==
    Returned("parse_to_color")
    => \A cs \in {Channels(arg.value.raw)} :
           /\ ret = ColorOf(cs)
           /\ CodesOf(errors) = [i \in 1..Cardinality(FailedChannels(cs)) |->
                                    "StepmaniaInvalidColorValue"]

(***************************************************************************)
(* Properties of the attack parser                                         *)
(***************************************************************************)

\* the text of the value of the running call
AttackRaw == arg.value.raw

\* the offset of the `:` that closes the segment before the one that holds
\* offset k, 0 when there is none
SegmentStart(k) ==
    IF \E j \in 1..k : AttackRaw[j] = CHAR_ATTACK_VALUE_SEPARATOR
    THEN CHOOSE j \in 1..k :
             /\ AttackRaw[j] = CHAR_ATTACK_VALUE_SEPARATOR
             /\ \A i \in (j + 1)..k : AttackRaw[i] # CHAR_ATTACK_VALUE_SEPARATOR
    ELSE 0

\* the segment that ends after k characters of the value
SegmentAt(k) == SubSeq(AttackRaw, SegmentStart(k) + 1, k)

\* the key of a segment `key=value`, lowercased; none without `=`
KeyOf(segment) ==
    IF find(segment, CHAR_ATTACK_KEY_SEPARATOR).some
    THEN Str(to_lowercase(trim(SplitOn(segment, CHAR_ATTACK_KEY_SEPARATOR)[1])))
    ELSE ""

\* the number of the value of a segment `key=value`
NumberOf(segment) ==
    Decoded("time",
            UnparsedPropertyValue(
                SubSeq(segment, find(segment, CHAR_ATTACK_KEY_SEPARATOR).v + 2,
                       Len(segment)),
                1, 0, 0))

\* the loop is about to close a segment: the next character is a `:`, or the
\* value has been read to its end
SegmentEnds ==
    /\ pc = "attacks"
    /\ \/ frame.v.current_pos >= Len(AttackRaw)
       \/ AttackRaw[frame.v.current_pos + 1] = CHAR_ATTACK_VALUE_SEPARATOR

OrderErrors(errs) == Cardinality(OfCode(errs, "StepmaniaInvalidAttackValueOrder"))

\* C29: when a segment with key `time` is closed at slot 1 or 2 exactly one
\* InvalidAttackValueOrder is appended, at slot 0 none; in both cases its
\* number, when it has one, becomes the start, and the segment after it is
\* handled at slot 1.
C29_TimeOnlyAtSlotZero ==
    [][SegmentEnds /\ KeyOf(SegmentAt(frame.v.current_pos)) = "time"
       => /\ OrderErrors(errors')
              = OrderErrors(errors) + (IF frame.v.element_idx # 0 THEN 1 ELSE 0)
          /\ pc' = "attacks" => frame'.v.element_idx = 1
          /\ NumberOf(SegmentAt(frame.v.current_pos)).some
                 => frame'.v.start_val = NumberOf(SegmentAt(frame.v.current_pos)).v
      ]_vars

\* `time=3` has been closed at slot 2, after `time=1:len=2`: one order
\* diagnostic, the start is 3 and the next segment is at slot 1
C29_Witness ==
    /\ pc = "attacks"
    /\ Len(AttackRaw) > 20
    /\ SubSeq(AttackRaw, 1, 20) = Chars("time=1:len=2:time=3:")
    /\ frame.v.current_pos = 20
    /\ frame.v.element_idx = 1
    /\ frame.v.start_val = I64(3000)
    /\ OrderErrors(errors) = 1

\* the segment before the one that ends after k characters
SegmentBefore(k) == SegmentAt(SegmentStart(k) - 1)

\* a segment `len=n` or `end=n` with a number n
HasNumber(segment, key) == KeyOf(segment) = key /\ NumberOf(segment).some

\* the duration a segment at slot 1 gives to a record that starts at start_val:
\* the number of `len`, the number of `end` less the start, and 0 without either
DurationOf(segment, start_val) ==
    IF HasNumber(segment, "len") THEN NumberOf(segment).v
    ELSE IF HasNumber(segment, "end") THEN IntSub(NumberOf(segment).v, start_val)
    ELSE I64(0)

LastAttack(f) == f.list[Len(f.list)]

\* C30: a segment `len` or `end` with a number, closed at slot 1, sets the
\* duration in progress to the number, for `end` less the start of the record;
\* the record that `mods` finalizes at slot 2 has the duration of the segment
\* right before it, its own slot 1, and 0 when that segment gave none.
C30_DurationOfSameRecord ==
    [][/\ (/\ SegmentEnds /\ frame.v.element_idx = 1
           /\ \/ HasNumber(SegmentAt(frame.v.current_pos), "len")
              \/ HasNumber(SegmentAt(frame.v.current_pos), "end"))
          => (/\ pc' # "panicked"
              /\ frame'.v.len_val = DurationOf(SegmentAt(frame.v.current_pos),
                                               frame.v.start_val))
       /\ (/\ SegmentEnds /\ frame.v.element_idx = 2
           /\ KeyOf(SegmentAt(frame.v.current_pos)) = "mods")
          => (/\ Len(frame'.v.list) = Len(frame.v.list) + 1
              /\ LastAttack(frame'.v).duration
                     = DurationOf(SegmentBefore(frame.v.current_pos),
                                  frame.v.start_val))
      ]_vars

\* the offset of the last character among cs in the first k of the value, 0
\* when there is none
LastOf(cs, k) ==
    IF \E j \in 1..k : AttackRaw[j] \in cs
    THEN CHOOSE j \in 1..k :
             AttackRaw[j] \in cs /\ \A i \in (j + 1)..k : AttackRaw[i] \notin cs
    ELSE 0

AttackSeparators == {CHAR_ATTACK_KEY_SEPARATOR, CHAR_ATTACK_VALUE_SEPARATOR}

\* the key read last in the first k characters of the value: the text that the
\* last `=` ends, trimmed and lowercased; a segment without `=` goes by the key
\* of the segment before it
CurrentKey(k) ==
    LET e == LastOf({CHAR_ATTACK_KEY_SEPARATOR}, k)
    IN IF e = 0 THEN ""
       ELSE Str(to_lowercase(trim(SubSeq(AttackRaw,
                                         LastOf(AttackSeparators, e - 1) + 1, e - 1))))

\* the loop closes a segment at slot 2 while the key is `mods`
ModsEnds ==
    /\ SegmentEnds
    /\ frame.v.element_idx = 2
    /\ CurrentKey(frame.v.current_pos) = "mods"

OtherEnds ==
    /\ SegmentEnds
    /\ CurrentKey(frame.v.current_pos) # "time"
    /\ ~(frame.v.element_idx = 1
         /\ CurrentKey(frame.v.current_pos) \in {"end", "len"})
    /\ ~(frame.v.element_idx = 2 /\ CurrentKey(frame.v.current_pos) = "mods")

\* exactly one diagnostic of the kind has been appended
OneMore(code) ==
    /\ Len(errors') = Len(errors) + 1
    /\ SubSeq(errors', 1, Len(errors)) = errors
    /\ errors'[Len(errors')].code = code

\* the attacks, the start and the duration in progress are left alone
AccumulatorKept ==
    /\ frame'.v.list = frame.v.list
    /\ frame'.v.start_val = frame.v.start_val
    /\ frame'.v.len_val = frame.v.len_val

\* C32: a segment closed under any other slot and key appends exactly one
\* InvalidAttackValue and nothing else happens: no attack is appended, start
\* and duration stay, and the segment after it is handled at the same slot.
C32_OtherSegmentIgnored ==
    [][OtherEnds
       => /\ OneMore("StepmaniaInvalidAttackValue")
          /\ AccumulatorKept
          /\ pc' = "attacks" => frame'.v.element_idx = frame.v.element_idx
      ]_vars

\* the segments of a value
Segments(raw) == SplitOn(raw, CHAR_ATTACK_VALUE_SEPARATOR)

\* segments i, i + 1 and i + 2 are `time=n`, `len=n` or `end=n`, and `mods=..`
IsTriple(segs, i) ==
    /\ HasNumber(segs[i], "time")
    /\ HasNumber(segs[i + 1], "len") \/ HasNumber(segs[i + 1], "end")
    /\ KeyOf(segs[i + 2]) = "mods"

\* a value of one or more such triples, and nothing else
IsTriples(raw) ==
    /\ raw # <<>>
    /\ Len(Segments(raw)) % 3 = 0
    /\ \A n \in 1..(Len(Segments(raw)) \div 3) : IsTriple(Segments(raw), 3 * n - 2)

\* the attack of the triple that starts at segment i
AttackOf(segs, i) ==
    [start |-> NumberOf(segs[i]).v,
     duration |-> DurationOf(segs[i + 1], NumberOf(segs[i]).v),
     modifiers |-> <<>>]

\* C33: the segment after the last `:` is handled like the ones before it: a
\* value of n triples `time=..:len=..:mods=..` (or `end=`) without a closing
\* `:` returns n attacks with the starts of the triples in their order, and no
\* InvalidAttackValue or InvalidAttackValueOrder.
C33_TriplesGiveRecords ==
    pc \in {"returned", "panicked"} /\ arg.fn = "parse_attacks" /\ IsTriples(AttackRaw)
    => /\ pc = "returned"
       /\ [n \in 1..Len(ret) |-> ret[n].start]
              = [n \in 1..(Len(Segments(AttackRaw)) \div 3) |->
                    AttackOf(Segments(AttackRaw), 3 * n - 2).start]
       /\ OfCode(errors, "StepmaniaInvalidAttackValue") = {}
       /\ OfCode(errors, "StepmaniaInvalidAttackValueOrder") = {}

(***************************************************************************)
(* Properties of the note-chart parser                                     *)
(***************************************************************************)

\* the value of the running call of parse_to_chart
ChartRaw == arg.value.raw

\* the states before the grid, in their order, and the states of the grid
Layer1 == <<"Type", "Credits", "Difficulty", "Rating", "RadioValues">>

Layer2 == {"Notes", "InlineAttack", "InlineKeysound"}

\* the number of `:` among the first k characters of the value
Colons(k) == Cardinality({i \in 1..k : ChartRaw[i] = CHAR_NOTE_PROP_SEPARATOR})

\* the state follows the `:` read so far: one state of layer 1 for each of the
\* first five, a state of the grid after the fifth
StateByColons(f) ==
    IF Colons(f.idx) < Len(Layer1) THEN f.state = Layer1[Colons(f.idx) + 1]
    ELSE f.state \in Layer2

\* C34: the states before the grid are visited in the order Type, Credits,
\* Difficulty, Rating, RadioValues, one state further for each `:`, and the
\* fifth `:` enters Notes; from then on the state is Notes, InlineAttack or
\* InlineKeysound whatever is read, the two inline states being entered from
\* Notes only.
C34_Layer1InOrder ==
    [][pc = "chart" /\ pc' = "chart"
       => /\ StateByColons(frame.v) /\ StateByColons(frame'.v)
          /\ frame.v.state \in Layer2 => frame'.v.state \in Layer2
          /\ (frame'.v.state \in Layer2 \ {"Notes"} /\ frame'.v.state # frame.v.state)
                 => frame.v.state = "Notes"
          /\ (Colons(frame'.v.idx) = Len(Layer1) /\ Colons(frame.v.idx) < Len(Layer1))
                 => frame'.v.state = "Notes"
      ]_vars

\* a `:` of the grid has been read and the parser is still in Notes
C34_Witness ==
    /\ pc = "chart"
    /\ ChartRaw = Chars("s:c:d:9:v:01:2,3")
    /\ frame.v.idx = 14
    /\ frame.v.state = "Notes"

\* the `:`-separated fields of a value
ChartFields(raw) == SplitOn(raw, CHAR_NOTE_PROP_SEPARATOR)

\* C35: the chart returned for a value `s:c:..` has step_style = trim(s), and
\* when the value has a second `:`, credit = trim(c), without text of the
\* fields after it.
C35_FieldBetweenColons ==
    Returned("parse_to_chart")
    => /\ Colons(Len(ChartRaw)) >= 1
              => ret.v.step_style = Str(trim(ChartFields(ChartRaw)[1]))
       /\ Colons(Len(ChartRaw)) >= 2
              => ret.v.credit = Str(trim(ChartFields(ChartRaw)[2]))

\* the rating of a value: its fourth field, trimmed
RatingOf(raw) == trim(ChartFields(raw)[4])

InvalidNumbers(errs) == Cardinality(OfCode(errs, "StepmaniaInvalidNumber"))

\* C36: when the fourth field of the value is an unsigned integer, blanks
\* around it aside, the meter of the chart returned is that integer and there
\* is no InvalidNumber; when it is not, there is exactly one InvalidNumber and
\* the meter is 0.
C36_RatingDecoded ==
    Returned("parse_to_chart") /\ Colons(Len(ChartRaw)) >= 4
    => IF parse_u16(RatingOf(ChartRaw)).some
       THEN /\ ret.v.meter = parse_u16(RatingOf(ChartRaw)).v
            /\ InvalidNumbers(errors) = 0
       ELSE /\ ret.v.meter = I64(0)
            /\ InvalidNumbers(errors) = 1

\* the cell type the format gives each note character
TypeOfChar ==
    [c \in NoteChars |->
        CASE c = "0" -> "Empty" [] c = "1" -> "Tap" [] c = "2" -> "HoldHead"
          [] c = "3" -> "Tail" [] c = "4" -> "RollHead" [] c = "M" -> "Mine"
          [] c = "K" -> "Keysound" [] c = "L" -> "Lift" [] c = "F" -> "Fake"]

\* the characters of a grid that are outside of `{..}` and `[..]`; mode is "Notes"
\* outside, and the closing character inside
RECURSIVE OutsideInline(_, _)
OutsideInline(s, mode) ==
    IF s = <<>> THEN <<>>
    ELSE IF mode # "Notes"
    THEN OutsideInline(Tail(s), IF Head(s) = mode THEN "Notes" ELSE mode)
    ELSE IF Head(s) = "{" THEN OutsideInline(Tail(s), "}")
    ELSE IF Head(s) = "[" THEN OutsideInline(Tail(s), "]")
    ELSE <<Head(s)>> \o OutsideInline(Tail(s), "Notes")

IsNoteChar(c) == c \in NoteChars

\* the cells of the note characters of a piece of text, in order
CellsOf(piece) ==
    [i \in 1..Len(SelectSeq(piece, IsNoteChar)) |->
        [note_type |-> TypeOfChar[SelectSeq(piece, IsNoteChar)[i]],
         actions |-> <<>>, keysound |-> None]]

\* the cells between the `,` of a grid, piece by piece
RowsOf(grid) ==
    [i \in 1..Len(SplitOn(OutsideInline(grid, "Notes"), CHAR_BEAT_SEPARATOR)) |->
        CellsOf(SplitOn(OutsideInline(grid, "Notes"), CHAR_BEAT_SEPARATOR)[i])]

\* the entries of a grid: the last piece counts when it has a cell
EntriesOf(grid) ==
    IF RowsOf(grid)[Len(RowsOf(grid))] = <<>>
    THEN SubSeq(RowsOf(grid), 1, Len(RowsOf(grid)) - 1)
    ELSE RowsOf(grid)

\* a `,` read in state Notes
BeatSeparatorRead ==
    /\ pc = "chart" /\ pc' = "chart"
    /\ frame.v.state = "Notes"
    /\ ChartRaw[frame.v.idx + 1] = CHAR_BEAT_SEPARATOR

\* C37: in state Notes a `,` appends the list in progress to the note data as
\* one entry and starts an empty list; at the end of the value a list in
\* progress that is not empty is appended as the last entry and an empty one
\* is not; the entries of the chart returned are the cells read between the
\* `,` of the grid, in order.
C37_RowsBetweenSeparators ==
    /\ [][(BeatSeparatorRead
              => /\ frame'.v.chart.data.notes =
                        Append(frame.v.chart.data.notes, frame.v.current_beat_notes)
                 /\ frame'.v.current_beat_notes = <<>>)
          /\ ((pc = "chart" /\ pc' = "returned")
              => ret'.v.data.notes =
                     IF frame.v.current_beat_notes # <<>>
                     THEN Append(frame.v.chart.data.notes, frame.v.current_beat_notes)
                     ELSE frame.v.chart.data.notes)]_vars
    /\ [](Returned("parse_to_chart")
              => ret.v.data.notes = EntriesOf(GridOf(ChartRaw)))

\* `1,,0\n,` returned: an empty entry between two `,`, and nothing appended for
\* the empty list at the end
C37_Witness ==
    /\ Returned("parse_to_chart")
    /\ ChartRaw = Chars("a:b:c:7:e:1,,0\n,")
    /\ Len(ret.v.data.notes) = 3
    /\ ret.v.data.notes[2] = <<>>
    /\ Len(ret.v.data.notes[3]) = 1

\* the character the loop reads next, in the given state
Reading(st) ==
    /\ pc = "chart" /\ pc' = "chart"
    /\ frame.v.state = st

NextChar == ChartRaw[frame.v.idx + 1]

CellOf(c) == [note_type |-> TypeOfChar[c], actions |-> <<>>, keysound |-> None]

\* the step appends no cell and ends no row
NothingAppended ==
    /\ frame'.v.current_beat_notes = frame.v.current_beat_notes
    /\ frame'.v.chart.data.notes = frame.v.chart.data.notes

\* C38: in state Notes a character of `0,1,2,3,4,M,K,L,F` appends one cell of
\* type Empty, Tap, HoldHead, Tail, RollHead, Mine, Keysound, Lift, Fake and no
\* other character appends a cell; `{` and `[` enter InlineAttack and
\* InlineKeysound, which only `}` resp. `]` leaves, to Notes; a character read
\* inside either appends no cell and ends no row.
C38_CellsAndInlineSections ==
    [][/\ (Reading("Notes") /\ NextChar \in NoteChars)
           => /\ frame'.v.current_beat_notes =
                     Append(frame.v.current_beat_notes, CellOf(NextChar))
              /\ frame'.v.chart.data.notes = frame.v.chart.data.notes
       /\ (Reading("Notes") /\ NextChar \notin NoteChars)
           => /\ frame'.v.current_beat_notes \in {frame.v.current_beat_notes, <<>>}
              /\ (NextChar # CHAR_BEAT_SEPARATOR => NothingAppended)
              /\ frame'.v.state =
                     IF NextChar = "{" THEN "InlineAttack"
                     ELSE IF NextChar = "[" THEN "InlineKeysound" ELSE "Notes"
       /\ Reading("InlineAttack")
           => /\ NothingAppended
              /\ frame'.v.state = IF NextChar = "}" THEN "Notes" ELSE "InlineAttack"
       /\ Reading("InlineKeysound")
           => /\ NothingAppended
              /\ frame'.v.state = IF NextChar = "]" THEN "Notes" ELSE "InlineKeysound"
      ]_vars

\* `0{1,\n}1[2,]3]4` returned: the cells of 0, 1, 3 and 4, nothing for the
\* characters inside the braces and the brackets
C38_Witness ==
    /\ Returned("parse_to_chart")
    /\ ChartRaw = Chars("a:b:c:7:e:0{1,\n}1[2,]3]4")
    /\ ret.v.data.notes = <<<<CellOf("0"), CellOf("1"), CellOf("3"), CellOf("4")>>>>
    /\ CellOf("3").note_type = "Tail" /\ CellOf("4").note_type = "RollHead"

(***************************************************************************)
(* Properties of the SELECTABLE property and of empty numbers              *)
(***************************************************************************)

\* the values of SELECTABLE that stand for true
SelectableValues == {"yes", "roulette", "es", "omes", "1"}

\* C39: when a SELECTABLE property was read, the record returned has
\* selectable = true if its value, trimmed and in lower case, is `yes`,
\* `roulette`, `es`, `omes` or `1`, and selectable = false otherwise.
C39_SelectableDecoded ==
    Finished /\ "selectable" \in DOMAIN map
    => ret.v.selectable =
           (Str(trim(to_lowercase(map["selectable"].raw))) \in SelectableValues)

\* the text after the first character of the value, as a span of its own
AfterDash(value) ==
    UnparsedPropertyValue(SubSeq(value.raw, 2, Len(value.raw)), value.line,
                          value.column, Len(value.raw) - 1)

\* C40: with a precision above 0, parse_to_number returns 0 for an empty or
\* blank text and appends no diagnostic, so the arm of OFFSET gives the present
\* value 0 for it; a range text that starts with `-` has min = 0, and is
\* returned whenever the text after the `-` decodes, with the diagnostics of
\* that text only.
C40_EmptyTextIsZero ==
    /\ (Returned("parse_to_number") /\ arg.precision > 0 /\ trim(arg.value.raw) = <<>>)
        => /\ ret = Some(I64(0))
           /\ errors = <<>>
           /\ Assign(DefaultFile, "offset", arg.value, TRUE).step.offset = Some(I64(0))
           /\ Assign(DefaultFile, "offset", arg.value, TRUE).errors = <<>>
    /\ (/\ Returned("parse_to_number_range") /\ arg.precision > 0
        /\ arg.value.raw # <<>> /\ arg.value.raw[1] = "-")
        => /\ ret.some <=> parse_to_number(AfterDash(arg.value), arg.precision).ret.some
           /\ ret.some => ret.v.min = I64(0)
           /\ errors = parse_to_number(AfterDash(arg.value), arg.precision).errors

\* `-240` has been decoded as the range from 0 to 240000
C40_Witness ==
    /\ Returned("parse_to_number_range")
    /\ Str(arg.value.raw) = "-240" /\ arg.precision = PRECISION_TIME
    /\ ret = Some([min |-> I64(0), max |-> I64(240000)])
    /\ errors = <<>>

====
